---- MODULE Spec2Model ----
(***************************************************************************)
(* Hourly wage counter: the Clock (TimerManager), the Earnings Accumulator *)
(* (WageCounter) and the Coordinator (WageCounterApp) of                   *)
(* src/js/test-integration.js, as a state machine.                         *)
(*                                                                         *)
(* JavaScript values are records [k, n, d]: k = "num" is the rational n/d  *)
(* (d > 0, lowest terms), k = "nan" is NaN, k = "str" is a non-numeric     *)
(* string such as 'abc'.  Numbers are exact rationals, except in the       *)
(* precision loop, which computes in IEEE 754 double precision.            *)
(***************************************************************************)
EXTENDS Integers, Sequences, FiniteSets, TLC

(* ------------------------------ bounds --------------------------------- *)
\* Date.now() at page load, in ms (any positive instant: 0 would be falsy).
T0 == 1000
\* The wall clock advances in multiples of Step ms ...
Step == 500
\* ... until it has advanced MaxTime ms in total.
MaxTime == 2000
\* The history variable segments stops counting at MaxSegments.
MaxSegments == 2
\* The host keeps at most MaxLeaks interval timers whose handle was lost.
MaxLeaks == 2
\* The formatters are given every number of seconds up to MaxFormatSeconds
\* (and the larger ones of FormatSeconds).
MaxFormatSeconds == 125
\* Doubles are kept to the bit of weight 2^-FracBits and are below
\* 2^(IntBits + 1).
FracBits == 68
IntBits == 12
\* localStorage holds at most QuotaChars characters of text.
QuotaChars == 15
\* The host's frames, and the calls of a throttled function, are FrameStep
\* ms apart or at the same instant.
FrameStep == 25

(* --------------------------- program constants ------------------------- *)
SecondsPerHour == 3600
SecondsPerMinute == 60
MsPerSecond == 1000
DefaultUpdateInterval == 1000
BackgroundUpdateInterval == 5000
MIN_WAGE == 0
MAX_WAGE == 1000000
TestModeWage == 1800
\* null for a time stamp or an interval id (both are positive when set).
NoTime == 0
NoInterval == 0
\* A Number has 53 significant bits.
MantissaBits == 53
\* The tests' assertEqual tolerates a difference of 0.0001 = 1 / 10000.
ToleranceInverse == 10000
\* The precision loop adds the rate per second 3600 times.
PrecisionLoopCount == 3600
\* cleanupOldData removes at most 3 keys.
MaxKeysToRemove == 3
\* PerformanceOptimizer.originalUpdateInterval as constructed; the value
\* adjustUpdateInterval takes for "not saved yet".
UnsavedUpdateInterval == 1000
\* optimizeDOMUpdates' minInterval (its default, and the tests' argument).
MinInterval == 100

(* ------------------------------ JS values ------------------------------ *)
RECURSIVE GCD(_, _)
GCD(a, b) == IF b = 0 THEN a ELSE GCD(b, a % b)

Abs(x) == IF x < 0 THEN -x ELSE x

\* The number n/d (d > 0) in lowest terms.
Rat(n, d) ==
    LET g == GCD(Abs(n), d)
    IN  [k |-> "num", n |-> n \div g, d |-> d \div g]

Num(n) == [k |-> "num", n |-> n, d |-> 1]
NaN == [k |-> "nan", n |-> 0, d |-> 1]
StrAbc == [k |-> "str", n |-> 0, d |-> 1]

\* typeof v === 'number' (NaN is a number)
TypeofNumber(v) == v.k \in {"num", "nan"}

\* ToNumber(v): a non-numeric string converts to NaN
ToNumber(v) == IF v.k = "num" THEN v ELSE NaN

\* isNaN(v)
IsNaN(v) == ToNumber(v).k = "nan"

\* a < b, a <= b, a >= b, a > b: false as soon as one side converts to NaN
Lt(a, b) ==
    /\ ~IsNaN(a) /\ ~IsNaN(b)
    /\ a.n * b.d < b.n * a.d
Le(a, b) ==
    /\ ~IsNaN(a) /\ ~IsNaN(b)
    /\ a.n * b.d <= b.n * a.d
Ge(a, b) == Le(b, a)
Gt(a, b) == Lt(b, a)

\* a / b for b a positive integer, a * b
DivInt(a, b) ==
    IF IsNaN(a) THEN NaN ELSE Rat(a.n, a.d * b)
Mul(a, b) ==
    IF IsNaN(a) \/ IsNaN(b) THEN NaN ELSE Rat(a.n * b.n, a.d * b.d)

\* Math.floor(ms / 1000) for an integer ms
FloorSeconds(ms) == ms \div MsPerSecond

(* -------------------------- double precision --------------------------- *)
\* A finite double that is not negative is the set of the positions of its
\* one bits: position i weighs 2^(i - FracBits).  Every operation computes
\* the exact result and rounds it to MantissaBits significant bits, to
\* nearest, ties to even.
DoubleZero == {}
DoubleOne == {FracBits}

\* The positions a double can have a one bit at.
Positions == 0..(FracBits + IntBits + 1)

\* The position of the leading one bit of F # {}.
Highest(F) == CHOOSE i \in F : \A j \in F : j <= i

\* F + G: position i receives a carry when a lower position j has a one in
\* both and every position between has a one in either.
ExactAdd(F, G) ==
    LET both == F \cap G
        either == F \cup G
        CarryIn(i) ==
            \E j \in both : j < i /\ \A k \in (j + 1)..(i - 1) : k \in either
    IN  {i \in Positions : ((i \in F) # (i \in G)) # CarryIn(i)}

\* F - G, for F >= G: position i lends when a lower position j has a one
\* in G only and no position between has a one in F only.
ExactSub(F, G) ==
    LET BorrowIn(i) ==
            \E j \in G \ F :
                j < i /\ \A k \in (j + 1)..(i - 1) : k \notin F \ G
    IN  {i \in Positions : ((i \in F) # (i \in G)) # BorrowIn(i)}

\* F < G
DoubleLt(F, G) ==
    /\ F # G
    /\ Highest((F \ G) \cup (G \ F)) \in G

\* (mutant) a quarter of the significant bits are kept
RoundToDouble_Coarse(F, sticky) ==
    IF F = {} THEN {}
    ELSE LET low == Highest(F) - (MantissaBits \div 4 - 1)
             kept == {i \in F : i >= low}
             half == (low - 1) \in F
             below == sticky \/ \E i \in F : i < low - 1
             odd == low \in F
         IN  IF half /\ (below \/ odd) THEN ExactAdd(kept, {low}) ELSE kept

\* The double nearest to the exact value F (plus a non-zero part below the
\* last position when sticky).
RoundToDouble(F, sticky) ==
    IF F = {} THEN {}
    ELSE LET low == Highest(F) - (MantissaBits - 1)
             kept == {i \in F : i >= low}
             half == (low - 1) \in F
             below == sticky \/ \E i \in F : i < low - 1
             odd == low \in F
         IN  IF half /\ (below \/ odd) THEN ExactAdd(kept, {low}) ELSE kept

\* 2^k mod d, for d * d within the integers
RECURSIVE PowerOfTwoMod(_, _)
PowerOfTwoMod(k, d) ==
    IF k = 0 THEN 1 % d
    ELSE LET h == PowerOfTwoMod(k \div 2, d)
             sq == (h * h) % d
         IN  IF k % 2 = 1 THEN (2 * sq) % d ELSE sq

\* (n * 2^k) mod d
ScaledRemainder(n, d, k) == ((n % d) * PowerOfTwoMod(k, d)) % d

\* The bit at position i of the exact quotient n / d: a bit of the integer
\* part, or the next bit long division gives after FracBits - i - 1 steps.
QuotientBit(n, d, i) ==
    IF i >= FracBits THEN ((n \div d) \div 2^(i - FracBits)) % 2 = 1
    ELSE 2 * ScaledRemainder(n, d, FracBits - i - 1) >= d

\* n / d for integers 0 <= n < 2^IntBits and d > 0
DoubleDiv(n, d) ==
    RoundToDouble({i \in Positions : QuotientBit(n, d, i)},
                  ScaledRemainder(n, d, FracBits) # 0)

\* a + b
DoubleAdd(F, G) == RoundToDouble(ExactAdd(F, G), FALSE)

\* Math.abs(a - b)
DoubleAbsDiff(F, G) ==
    RoundToDouble(IF DoubleLt(F, G) THEN ExactSub(G, F) ELSE ExactSub(F, G),
                  FALSE)

\* The double a number v >= 0 is held as: v is the quotient of two integers
\* that are doubles, and a division is rounded once.
ToDouble(v) == DoubleDiv(v.n, v.d)

\* The literal 0.0001
Tolerance == DoubleDiv(1, ToleranceInverse)

\* The tests' assertEqual(actual, expected) does not throw.
AssertEqualPasses(actual, expected) ==
    ~DoubleLt(Tolerance, DoubleAbsDiff(actual, expected))

(* ------------------------------ inputs --------------------------------- *)
\* Arguments of WageCounter.setHourlyWage: negative, zero, positive, NaN,
\* non-numeric.
WageInputs == {Num(-100), Num(0), Num(1000), Num(2500), NaN, StrAbc}
\* Arguments of WageCounterApp.setHourlyWage, which passes them on.
AppWageInputs == {Num(-100), Num(0), Num(1000), Num(2500), NaN}
\* Arguments of updateElapsedTime / setElapsedTime.
SecondsInputs == {Num(-5), Num(0), Num(1), Num(60), Num(28800), NaN, StrAbc}
\* Arguments of setUpdateInterval.
IntervalInputs == {Num(DefaultUpdateInterval), Num(BackgroundUpdateInterval),
                   Num(0), Num(-100), StrAbc}
\* Arguments of the formatters: the first two minutes, and seconds around
\* the hour, ten hours, a day and a hundred hours.
FormatSeconds ==
    (0..MaxFormatSeconds)
      \cup {3599, 3600, 3661, 35999, 36000, 86399, 86400, 90061, 359999,
            360000, 360061}
\* What loadSettings('hourlyWage', 0) finds at page load: nothing (the
\* default 0 is returned) or a saved wage.
StoredWages == {Num(0), Num(1000)}
\* Hourly rates of the precision tests.
PrecisionRates == {1, 1800, 3600}

(* ------------------------------ state ---------------------------------- *)
VARIABLES
    wc,             \* the WageCounter's fields
    tm,             \* the TimerManager's fields (meaningful once created)
    isInitialized,  \* WageCounterApp.isInitialized (timerManager # null)
    scheduled,      \* the host's live setInterval timers: records [id, ms]
    now,            \* Date.now()
    storedWage,     \* the persisted 'hourlyWage' setting
    testMode,       \* window.location.search includes 'test=true'
    lastOp,         \* the operation that produced this state
    lastArg,        \* its argument (Num(0) when it takes none)
    lastRet,        \* its return value ("undefined" for a void method)
    lastFrom,       \* the Coordinator's lifecycle state it was called in
    lastRunning,    \* the Clock's isRunning when it was called
    loopIndex,      \* the precision loop's i
    accumulated,    \* the precision loop's sum, a double
    storage,        \* the StorageManager's fields [isAvailable, memoryCache]
    localStorage,   \* the host's localStorage: key -> text
    storageAllowed, \* the host lets localStorage be used
    savedKeys,      \* the keys saveSettings was ever given
    savedWage,      \* the last wage saveHourlyWage saved, and by whom
    rateBefore,     \* the rate in force before it was changed while Paused
    visibilityState,    \* document.visibilityState
    optimizer,          \* the PerformanceOptimizer's fields
    intervalBeforeHide, \* history: the tick interval when the page was hidden
    domUpdate,      \* the closure of optimizeDOMUpdates' returned function
    frames,         \* the host's animation frames requested (the times
                    \* of the requests) and not yet run
    lastExecution,  \* history: Date.now() at updateFn's last execution
    segments,       \* history: run segments begun since the last reset
    activeMs,       \* history: ms the wall clock advanced while the Clock ran
    idleMs          \* history: ms it advanced while paused between segments

vars == <<wc, tm, isInitialized, scheduled, now, storedWage, testMode,
          lastOp, lastArg, lastRet, lastFrom, lastRunning, loopIndex,
          accumulated, storage, localStorage, storageAllowed, savedKeys,
          savedWage, rateBefore, visibilityState, optimizer,
          intervalBeforeHide, domUpdate, frames, lastExecution, segments,
          activeMs, idleMs>>

\* The Clock, the Accumulator and the Coordinator see the StorageManager
\* through storedWage; the storage variables move in the specifications of
\* the StorageManager only.
StorageVars == <<storage, localStorage, storageAllowed, savedKeys, savedWage>>
\* The variables of the precision loop, and those that move in one
\* specification only.
PrecisionVars == <<loopIndex, accumulated>>
OptimizerVars == <<visibilityState, optimizer, intervalBeforeHide>>
ThrottleVars == <<domUpdate, frames, lastExecution>>
OtherVars == <<rateBefore, OptimizerVars, ThrottleVars>>

(* ---------------------------- WageCounter ------------------------------ *)
WC_new ==
    [hourlyWage |-> Num(0), currentEarnings |-> Num(0),
     elapsedSeconds |-> Num(0), isRunning |-> FALSE,
     perSecondWage |-> Num(0), startTime |-> NoTime, pausedTime |-> 0]

WC_setHourlyWage(w, wage) ==
    LET hw == IF Lt(wage, Num(0)) THEN Num(0) ELSE wage
    IN  [w EXCEPT !.hourlyWage = hw,
                  !.perSecondWage = DivInt(hw, SecondsPerHour)]

WC_setCurrentEarnings(w, earnings) ==
    [w EXCEPT !.currentEarnings = earnings]

WC_setElapsedTime(w, seconds) ==
    [w EXCEPT !.elapsedSeconds = seconds]

WC_calculateEarningsForSeconds(w, seconds) ==
    IF ~TypeofNumber(seconds) \/ IsNaN(seconds) \/ Lt(seconds, Num(0))
    THEN Num(0)
    ELSE LET wage == IF Lt(w.perSecondWage, Num(0)) THEN Num(0)
                     ELSE w.perSecondWage
         IN  Mul(wage, seconds)

WC_updateCurrentEarnings(w) ==
    [w EXCEPT !.currentEarnings =
                  WC_calculateEarningsForSeconds(w, w.elapsedSeconds)]

\* Faulty variant of updateElapsedTime: the new elapsed time is stored without recomputing the earnings.
WC_updateElapsedTime_NoRecompute(w, elapsedSeconds) ==
    [w EXCEPT !.elapsedSeconds = elapsedSeconds]

WC_updateElapsedTime(w, elapsedSeconds) ==
    WC_updateCurrentEarnings([w EXCEPT !.elapsedSeconds = elapsedSeconds])

\* Faulty variant of start: every start records a new startTime.
WC_start_Reanchor(w, t) ==
    IF ~w.isRunning
    THEN [w EXCEPT !.isRunning = TRUE, !.startTime = t]
    ELSE w

WC_start(w, t) ==
    IF ~w.isRunning
    THEN [w EXCEPT !.isRunning = TRUE,
                   !.startTime = IF w.startTime = NoTime THEN t
                                 ELSE w.startTime]
    ELSE w

WC_stop(w) == [w EXCEPT !.isRunning = FALSE]

\* Faulty variant of reset: it forgets the accrued earnings.
WC_reset_KeepsEarnings(w) ==
    [w EXCEPT !.elapsedSeconds = Num(0), !.isRunning = FALSE,
              !.startTime = NoTime, !.pausedTime = 0]

WC_reset(w) ==
    [w EXCEPT !.currentEarnings = Num(0), !.elapsedSeconds = Num(0),
              !.isRunning = FALSE, !.startTime = NoTime, !.pausedTime = 0]

(* ---------------------------- TimerManager ----------------------------- *)
\* A TimerManager operation acts on the object and on the host's timers:
\* it maps c = [tm |-> fields, sched |-> live timers] to the same.
\* callback is the kind of value the constructor was given: "function" (the
\* application gives its closure), "null", "undefined", "string" (a
\* non-empty string such as 'not a function') or "object" (an object that
\* is not a function).
CallbackKinds == {"function", "null", "undefined", "string", "object"}

TM_new ==
    [callback |-> "function",
     intervalId |-> NoInterval, isRunning |-> FALSE, startTime |-> NoTime,
     pausedTime |-> 0, updateInterval |-> DefaultUpdateInterval]

\* new TimerManager(callback)
TM_newWith(callback) == [TM_new EXCEPT !.callback = callback]

\* setInterval's return value: a positive id no live timer has.
NewIntervalId(sched) ==
    CHOOSE i \in 1..(Cardinality(sched) + 1) :
        \A s \in sched : s.id # i

\* Faulty variant of start: it does not look at isRunning, re-anchors and
\* schedules another timer.
TM_start_Unguarded(c, t) ==
    LET id == NewIntervalId(c.sched)
    IN  [tm |-> [c.tm EXCEPT !.isRunning = TRUE, !.startTime = t,
                             !.intervalId = id],
         sched |-> c.sched \cup {[id |-> id, ms |-> c.tm.updateInterval]}]

\* start() ends with a TypeError: this.callback is truthy and new
\* WeakRef(this.callback) does not take a primitive value.
TM_startThrows(c) == ~c.tm.isRunning /\ c.tm.callback = "string"

\* The TypeError leaves start() after isRunning and startTime were
\* assigned and before setInterval is called.
TM_start(c, t) ==
    IF c.tm.isRunning THEN c
    ELSE IF TM_startThrows(c)
    THEN [c EXCEPT !.tm.isRunning = TRUE, !.tm.startTime = t]
    ELSE LET id == NewIntervalId(c.sched)
         IN  [tm |-> [c.tm EXCEPT !.isRunning = TRUE, !.startTime = t,
                                  !.intervalId = id],
              sched |-> c.sched \cup {[id |-> id, ms |-> c.tm.updateInterval]}]

\* Faulty variant of stop: it overwrites pausedTime with the last segment instead of
\* adding the segment to it.
TM_stop_Overwrite(c, t) ==
    IF ~c.tm.isRunning THEN c
    ELSE [tm |-> [c.tm EXCEPT
                    !.isRunning = FALSE,
                    !.pausedTime = IF c.tm.startTime # NoTime
                                   THEN t - c.tm.startTime
                                   ELSE c.tm.pausedTime,
                    !.intervalId = NoInterval],
          sched |-> IF c.tm.intervalId # NoInterval
                    THEN {s \in c.sched : s.id # c.tm.intervalId}
                    ELSE c.sched]

\* Faulty variant of stop: it forgets the interval id without calling
\* clearInterval.
TM_stop_KeepsTimer(c, t) ==
    IF ~c.tm.isRunning THEN c
    ELSE [tm |-> [c.tm EXCEPT
                    !.isRunning = FALSE,
                    !.pausedTime = IF c.tm.startTime # NoTime
                                   THEN c.tm.pausedTime + (t - c.tm.startTime)
                                   ELSE c.tm.pausedTime,
                    !.intervalId = NoInterval],
          sched |-> c.sched]

\* Faulty variant of stop: it also sets startTime to null.
TM_stop_ClearsAnchor(c, t) ==
    IF ~c.tm.isRunning THEN c
    ELSE [tm |-> [c.tm EXCEPT
                    !.isRunning = FALSE,
                    !.pausedTime = IF c.tm.startTime # NoTime
                                   THEN c.tm.pausedTime + (t - c.tm.startTime)
                                   ELSE c.tm.pausedTime,
                    !.startTime = NoTime,
                    !.intervalId = NoInterval],
          sched |-> IF c.tm.intervalId # NoInterval
                    THEN {s \in c.sched : s.id # c.tm.intervalId}
                    ELSE c.sched]

\* Faulty variant of stop: no isRunning test, every call folds and clears.
TM_stop_NoGuard(c, t) ==
    [tm |-> [c.tm EXCEPT
               !.isRunning = FALSE,
               !.pausedTime = IF c.tm.startTime # NoTime
                              THEN c.tm.pausedTime + (t - c.tm.startTime)
                              ELSE c.tm.pausedTime,
               !.intervalId = NoInterval],
     sched |-> IF c.tm.intervalId # NoInterval
               THEN {s \in c.sched : s.id # c.tm.intervalId}
               ELSE c.sched]

TM_stop(c, t) ==
    IF ~c.tm.isRunning THEN c
    ELSE [tm |-> [c.tm EXCEPT
                    !.isRunning = FALSE,
                    !.pausedTime = IF c.tm.startTime # NoTime
                                   THEN c.tm.pausedTime + (t - c.tm.startTime)
                                   ELSE c.tm.pausedTime,
                    !.intervalId = NoInterval],
          sched |-> IF c.tm.intervalId # NoInterval
                    THEN {s \in c.sched : s.id # c.tm.intervalId}
                    ELSE c.sched]

\* Faulty variant of reset: it stops the Clock and keeps the accumulated
\* time.
TM_reset_KeepsPaused(c, t) ==
    LET s == IF c.tm.isRunning THEN TM_stop(c, t) ELSE c
    IN  [s EXCEPT !.tm.startTime = NoTime, !.tm.isRunning = FALSE]

TM_reset(c, t) ==
    LET s == IF c.tm.isRunning THEN TM_stop(c, t) ELSE c
    IN  [s EXCEPT !.tm.startTime = NoTime, !.tm.pausedTime = 0,
                  !.tm.isRunning = FALSE]

TM_getElapsedSeconds(t, n) ==
    LET totalElapsed == IF t.isRunning /\ t.startTime # NoTime
                        THEN t.pausedTime + (n - t.startTime)
                        ELSE t.pausedTime
    IN  FloorSeconds(totalElapsed)

\* Faulty variant of setUpdateInterval: a running timer is re-anchored at the change without folding the
\* open segment into pausedTime.
TM_setUpdateInterval_Reanchor(c, interval, t) ==
    IF TypeofNumber(interval) /\ Gt(interval, Num(0))
    THEN LET c1 == [c EXCEPT !.tm.updateInterval = interval.n]
         IN  IF c1.tm.isRunning THEN [c1 EXCEPT !.tm.startTime = t] ELSE c1
    ELSE c

\* Faulty variant of setUpdateInterval: the argument is stored without the
\* typeof and > 0 tests.
TM_setUpdateInterval_Unchecked(c, interval, t) ==
    LET c1 == [c EXCEPT !.tm.updateInterval = interval.n]
    IN  IF c1.tm.isRunning THEN TM_start(TM_stop(c1, t), t) ELSE c1

\* Faulty variant of setUpdateInterval: a running timer is stopped and not
\* started again.
TM_setUpdateInterval_StopOnly(c, interval, t) ==
    IF TypeofNumber(interval) /\ Gt(interval, Num(0))
    THEN LET c1 == [c EXCEPT !.tm.updateInterval = interval.n]
         IN  IF c1.tm.isRunning THEN TM_stop(c1, t) ELSE c1
    ELSE c

TM_setUpdateInterval(c, interval, t) ==
    IF TypeofNumber(interval) /\ Gt(interval, Num(0))
    THEN LET c1 == [c EXCEPT !.tm.updateInterval = interval.n]
         IN  IF c1.tm.isRunning THEN TM_start(TM_stop(c1, t), t) ELSE c1
    ELSE c

(* ------------------------------ formatting ----------------------------- *)
\* Strings are sequences of one-character strings.
DigitChars == <<"0", "1", "2", "3", "4", "5", "6", "7", "8", "9">>

\* n.toString() for a non-negative integer n
RECURSIVE NumberToString(_)
NumberToString(n) ==
    IF n < 10 THEN <<DigitChars[n + 1]>>
    ELSE Append(NumberToString(n \div 10), DigitChars[(n % 10) + 1])

\* str.padStart(targetLength, padString) for a one-character padString
RECURSIVE PadStart(_, _, _)
PadStart(str, targetLength, padString) ==
    IF Len(str) >= targetLength THEN str
    ELSE PadStart(<<padString>> \o str, targetLength, padString)

\* The number a string of decimal digits stands for.
DigitValue(ch) == CHOOSE d \in 0..9 : DigitChars[d + 1] = ch
RECURSIVE DigitsValue(_)
DigitsValue(str) ==
    IF str = <<>> THEN 0
    ELSE 10 * DigitsValue(SubSeq(str, 1, Len(str) - 1))
           + DigitValue(str[Len(str)])
IsDigits(str) == \A i \in 1..Len(str) : \E d \in 1..10 : DigitChars[d] = str[i]

\* The formatters below are given for a non-negative integer number of
\* seconds (elapsedSeconds.k = "num", .d = 1, .n >= 0).
WC_getElapsedTimeBreakdown(w) ==
    LET totalSeconds == w.elapsedSeconds.n
    IN  [hours |-> totalSeconds \div SecondsPerHour,
         minutes |-> (totalSeconds % SecondsPerHour) \div SecondsPerMinute,
         seconds |-> totalSeconds % SecondsPerMinute]

\* Faulty variant of getFormattedElapsedTime: the hours wrap at 24.
WC_getFormattedElapsedTime_Wraps(w) ==
    LET totalSeconds == w.elapsedSeconds.n
        hours == (totalSeconds \div SecondsPerHour) % 24
        minutes == (totalSeconds % SecondsPerHour) \div SecondsPerMinute
        seconds == totalSeconds % SecondsPerMinute
    IN  PadStart(NumberToString(hours), 2, "0") \o <<":">>
          \o PadStart(NumberToString(minutes), 2, "0") \o <<":">>
          \o PadStart(NumberToString(seconds), 2, "0")

WC_getFormattedElapsedTime(w) ==
    LET totalSeconds == w.elapsedSeconds.n
        hours == totalSeconds \div SecondsPerHour
        minutes == (totalSeconds % SecondsPerHour) \div SecondsPerMinute
        seconds == totalSeconds % SecondsPerMinute
    IN  PadStart(NumberToString(hours), 2, "0") \o <<":">>
          \o PadStart(NumberToString(minutes), 2, "0") \o <<":">>
          \o PadStart(NumberToString(seconds), 2, "0")

TM_getElapsedTimeBreakdown(t, n) ==
    LET totalSeconds == TM_getElapsedSeconds(t, n)
    IN  [hours |-> totalSeconds \div SecondsPerHour,
         minutes |-> (totalSeconds % SecondsPerHour) \div SecondsPerMinute,
         seconds |-> totalSeconds % SecondsPerMinute]

TM_getFormattedElapsedTime(t, n) ==
    LET breakdown == TM_getElapsedTimeBreakdown(t, n)
    IN  PadStart(NumberToString(breakdown.hours), 2, "0") \o <<":">>
          \o PadStart(NumberToString(breakdown.minutes), 2, "0") \o <<":">>
          \o PadStart(NumberToString(breakdown.seconds), 2, "0")

(* ---------------------------- StorageManager --------------------------- *)
\* A value handed to the StorageManager is [t, s]: its JavaScript type and
\* the text saveSettings stores for it, String(value), or
\* JSON.stringify(value) when typeof value is 'object'.
SV_Number(n) == [t |-> "number", s |-> NumberToString(n)]
SV_String(str) == [t |-> "string", s |-> str]
SV_Undefined == [t |-> "undefined",
                 s |-> <<"u", "n", "d", "e", "f", "i", "n", "e", "d">>]
SV_Null == [t |-> "null", s |-> <<"n", "u", "l", "l">>]
\* A function inherited from Object.prototype.
SV_Inherited == [t |-> "function", s |-> <<"f">>]

\* JSON.parse(text): [ok, value]; a number, null, or a SyntaxError.
JSONParse(text) ==
    IF text # <<>> /\ IsDigits(text) /\ (Len(text) = 1 \/ text[1] # "0")
    THEN [ok |-> TRUE, value |-> [t |-> "number", s |-> text]]
    ELSE IF text = SV_Null.s
    THEN [ok |-> TRUE, value |-> SV_Null]
    ELSE [ok |-> FALSE, value |-> SV_Undefined]

\* A localStorage key is [prefixed, name]: name, after the prefix
\* 'wageCounter_' when prefixed.  localStorage is a function from the keys
\* it holds to their texts.
PrefixedKey(key) == [prefixed |-> TRUE, name |-> key]
\* key.includes('hourlyWage'), for the names in use
IncludesHourlyWage(lsKey) == lsKey.name \in {"hourlyWage", "hourlyWage_backup"}

RECURSIVE UsedChars(_, _)
UsedChars(ls, keys) ==
    IF keys = {} THEN 0
    ELSE LET k == CHOOSE x \in keys : TRUE
         IN  Len(ls[k]) + UsedChars(ls, keys \ {k})

\* localStorage.setItem(key, text) throws a QuotaExceededError: the host
\* holds at most QuotaChars characters of text.
SetItemThrows(ls, lsKey, text) ==
    UsedChars(ls, DOMAIN ls \ {lsKey}) + Len(text) > QuotaChars
SetItem(ls, lsKey, text) ==
    [k \in DOMAIN ls \cup {lsKey} |-> IF k = lsKey THEN text ELSE ls[k]]
RemoveItems(ls, lsKeys) == [k \in DOMAIN ls \ lsKeys |-> ls[k]]

\* An object without own properties.
EmptyObject == [k \in {} |-> SV_Undefined]
\* object[key] for an object made by {}: an own property, or what
\* Object.prototype has under that name, or undefined.
ObjectPrototypeNames == {"toString", "constructor", "valueOf", "hasOwnProperty"}
GetProperty(object, key) ==
    IF key \in DOMAIN object THEN object[key]
    ELSE IF key \in ObjectPrototypeNames THEN SV_Inherited
    ELSE SV_Undefined
SetProperty(object, key, value) ==
    [k \in DOMAIN object \cup {key} |-> IF k = key THEN value ELSE object[k]]

\* !key || typeof key !== 'string': the empty string is the invalid key
\* among the keys in use.
InvalidKey(key) == key = ""

\* A storage operation maps m = [s, ls] (the StorageManager's fields and
\* localStorage) to [m, ret].

\* checkStorageAvailability(): the host lets localStorage be used, and
\* the test value fits.
StorageTestKey == [prefixed |-> FALSE, name |-> "__storage_test__"]
StorageTestValue == <<"t", "e", "s", "t">>
SM_checkStorageAvailability(ls, allowed) ==
    allowed /\ ~SetItemThrows(ls, StorageTestKey, StorageTestValue)

SM_new(ls, allowed) ==
    [isAvailable |-> SM_checkStorageAvailability(ls, allowed),
     memoryCache |-> EmptyObject]

\* cleanupOldData(): the keys it removes are the first MaxKeysToRemove that
\* localStorage.key(i) gives among those with the prefix and without
\* 'hourlyWage'; the order of key(i) is the host's.
CleanupCandidates(ls) ==
    {k \in DOMAIN ls : k.prefixed /\ ~IncludesHourlyWage(k)}
CleanupChoices(ls) ==
    LET size == IF Cardinality(CleanupCandidates(ls)) < MaxKeysToRemove
                THEN Cardinality(CleanupCandidates(ls))
                ELSE MaxKeysToRemove
    IN  {R \in SUBSET CleanupCandidates(ls) : Cardinality(R) = size}
SM_cleanupOldData(ls, keysToRemove) == RemoveItems(ls, keysToRemove)

\* In the catch block of saveSettings, prefixedKey and valueToStore, which
\* are declared with const inside the try block, are not in scope: the
\* retried setItem ends with a ReferenceError, which is caught.
RetryInScope == FALSE

SM_saveSettings(m, key, value, keysToRemove) ==
    IF InvalidKey(key)
    THEN [m |-> m,
          ret |-> [success |-> FALSE, error |-> "invalid_key",
                   warning |-> "none", fallbackUsed |-> FALSE]]
    ELSE LET cached == [m EXCEPT !.s.memoryCache =
                                     SetProperty(m.s.memoryCache, key, value)]
             prefixedKey == PrefixedKey(key)
             valueToStore == value.s
         IN  IF ~m.s.isAvailable
             THEN [m |-> cached,
                   ret |-> [success |-> TRUE, error |-> "storage_unavailable",
                            warning |-> "none", fallbackUsed |-> TRUE]]
             ELSE IF ~SetItemThrows(m.ls, prefixedKey, valueToStore)
             THEN [m |-> [cached EXCEPT
                             !.ls = SetItem(m.ls, prefixedKey, valueToStore)],
                   ret |-> [success |-> TRUE, error |-> "null",
                            warning |-> "none", fallbackUsed |-> FALSE]]
             ELSE LET cleaned == SM_cleanupOldData(m.ls, keysToRemove)
                  IN  IF RetryInScope
                         /\ ~SetItemThrows(cleaned, prefixedKey, valueToStore)
                      THEN [m |-> [cached EXCEPT
                                      !.ls = SetItem(cleaned, prefixedKey,
                                                     valueToStore)],
                            ret |-> [success |-> TRUE, error |-> "null",
                                     warning |-> "storage_cleanup_performed",
                                     fallbackUsed |-> FALSE]]
                      ELSE [m |-> [cached EXCEPT !.ls = cleaned],
                            ret |-> [success |-> FALSE,
                                     error |-> "storage_quota_exceeded",
                                     warning |-> "none",
                                     fallbackUsed |-> TRUE]]

SM_loadSettings(m, key, defaultValue) ==
    IF InvalidKey(key)
    THEN [m |-> m,
          ret |-> [value |-> defaultValue, success |-> FALSE,
                   error |-> "invalid_key", fromCache |-> FALSE]]
    ELSE IF GetProperty(m.s.memoryCache, key) # SV_Undefined
    THEN [m |-> m,
          ret |-> [value |-> GetProperty(m.s.memoryCache, key),
                   success |-> TRUE, error |-> "null", fromCache |-> TRUE]]
    ELSE IF ~m.s.isAvailable
    THEN [m |-> m,
          ret |-> [value |-> defaultValue, success |-> FALSE,
                   error |-> "storage_unavailable", fromCache |-> FALSE]]
    ELSE IF PrefixedKey(key) \notin DOMAIN m.ls
    THEN [m |-> m,
          ret |-> [value |-> defaultValue, success |-> TRUE,
                   error |-> "null", fromCache |-> FALSE]]
    ELSE LET storedValue == m.ls[PrefixedKey(key)]
             parsed == JSONParse(storedValue)
             value == IF parsed.ok THEN parsed.value
                      ELSE SV_String(storedValue)
         IN  [m |-> [m EXCEPT !.s.memoryCache =
                                  SetProperty(m.s.memoryCache, key, value)],
              ret |-> [value |-> value, success |-> TRUE, error |-> "null",
                       fromCache |-> FALSE]]

SM_removeSettings(m, key) ==
    IF ~m.s.isAvailable
    THEN [m |-> m, ret |-> [success |-> FALSE, error |-> "storage_unavailable"]]
    ELSE [m |-> [m EXCEPT !.ls = RemoveItems(m.ls, {PrefixedKey(key)})],
          ret |-> [success |-> TRUE, error |-> "null"]]

SM_clearAllSettings(m) ==
    IF ~m.s.isAvailable
    THEN [m |-> m, ret |-> [success |-> FALSE, error |-> "storage_unavailable"]]
    ELSE [m |-> [m EXCEPT !.ls = RemoveItems(m.ls,
                                      {k \in DOMAIN m.ls : k.prefixed})],
          ret |-> [success |-> TRUE, error |-> "null"]]

SM_hasSettings(m, key) ==
    m.s.isAvailable /\ PrefixedKey(key) \in DOMAIN m.ls

\* --- inputs of the StorageManager
\* Keys given to saveSettings and removeSettings: two settings and the
\* empty string; loadSettings is also given a name that Object.prototype
\* has.
StorageKeys == {"test_key", "hourlyWage", ""}
LoadKeys == StorageKeys \cup {"toString"}
\* Values given to saveSettings, and defaults given to loadSettings.
StorageValues == {SV_Number(TestModeWage), SV_String(<<"a", "b", "c">>),
                  SV_Undefined}
StorageDefaults == {SV_Null, SV_Number(0)}
\* What localStorage holds at page load from earlier sessions and from
\* other pages of the origin: nothing, or four old settings of this
\* application and a text of another page.
OldText == <<"x">>
OtherText == <<"x", "y", "z">>
OldStorage ==
    [k \in {PrefixedKey("visualizationMode"), PrefixedKey("old_1"),
            PrefixedKey("old_2"), PrefixedKey("hourlyWage_backup"),
            [prefixed |-> FALSE, name |-> "theme"]}
       |-> IF k.prefixed THEN OldText ELSE OtherText]
InitialStorages == {EmptyObject, OldStorage}

(* ---------------------------- InputValidator --------------------------- *)
\* validateWage(input): parseFloat, then the range and the two-decimals
\* checks; [isValid, value].  (The empty string and null are not among the
\* values modelled.)
IV_validateWage(input) ==
    IF IsNaN(input) THEN [isValid |-> FALSE, value |-> Num(0)]
    ELSE IF Lt(input, Num(MIN_WAGE)) THEN [isValid |-> FALSE, value |-> Num(0)]
    ELSE IF Gt(input, Num(MAX_WAGE)) THEN [isValid |-> FALSE, value |-> Num(0)]
    ELSE IF (100 * input.n) % input.d # 0
         THEN [isValid |-> FALSE, value |-> Num(0)]
    ELSE [isValid |-> TRUE, value |-> input]

(* ---------------------------- WageCounterApp --------------------------- *)
\* An application operation maps a = [wc, c, init, stored] (the counter, the
\* timer with the host's timers, isInitialized, the persisted wage) to the
\* same; start also returns a value.

\* window.testWageOverride: no code of the repository assigns it.
TestWageOverrideDefined == FALSE
TestWageOverride == Num(0)

App_setHourlyWage(a, wage) ==
    [a EXCEPT !.wc = WC_setHourlyWage(a.wc, wage)]

App_loadSavedSettings(a, test) ==
    LET a1 == IF test THEN [a EXCEPT !.stored = Num(TestModeWage)] ELSE a
        validationResult == IV_validateWage(a1.stored)
    IN  IF validationResult.isValid
        THEN App_setHourlyWage(a1, validationResult.value)
        ELSE App_setHourlyWage(a1, Num(0))

\* Faulty variant of initialize: no isInitialized test, every call creates a
\* TimerManager and loads the settings.
App_initialize_Unguarded(a, test) ==
    LET a1 == [a EXCEPT !.c.tm = TM_new]
        a2 == App_loadSavedSettings(a1, test)
    IN  [a2 EXCEPT !.init = TRUE]

App_initialize(a, test) ==
    IF a.init THEN a
    ELSE LET a1 == [a EXCEPT !.c.tm = TM_new]
             a2 == App_loadSavedSettings(a1, test)
         IN  [a2 EXCEPT !.init = TRUE]

App_start(a, t, test) ==
    LET a1 == IF ~a.init THEN App_initialize(a, test) ELSE a
    IN  IF Le(a1.wc.hourlyWage, Num(0))
        THEN [a |-> a1, ret |-> "false"]
        ELSE [a |-> [a1 EXCEPT !.wc = WC_start(a1.wc, t),
                               !.c = TM_start(a1.c, t)],
              ret |-> "true"]

\* --- the Coordinator with its StorageManager: p = [a, m]
\* The number a stored value is to validateWage (parseFloat of a text that
\* is not a number is NaN).
StoredValue(value) ==
    IF value.s # <<>> /\ IsDigits(value.s) THEN Num(DigitsValue(value.s))
    ELSE StrAbc

\* loadSavedSettings() with the StorageManager: in test mode two settings
\* are saved and put in the memory cache first; the wage loadSettings
\* gives is what App_loadSavedSettings validates; loadVisualSettings reads
\* the visualization mode.
StorageLoadSavedSettings(m, test, keysToRemove1, keysToRemove2) ==
    LET m1 == IF test
              THEN SM_saveSettings(m, "hourlyWage", SV_Number(TestModeWage),
                                   keysToRemove1).m
              ELSE m
        m2 == IF test
              THEN SM_saveSettings(m1, "visualizationMode",
                                   SV_String(<<"c", "i", "r", "c", "l", "e">>),
                                   keysToRemove2).m
              ELSE m1
        r == SM_loadSettings(m2, "hourlyWage", SV_Number(0))
        v == SM_loadSettings(r.m, "visualizationMode",
                             SV_String(<<"b", "a", "r">>))
    IN  [m |-> v.m, value |-> r.ret.value]

App_initializeWith(p, test, keysToRemove1, keysToRemove2) ==
    IF p.a.init THEN p
    ELSE LET l == StorageLoadSavedSettings(p.m, test, keysToRemove1,
                                           keysToRemove2)
         IN  [a |-> App_initialize([p.a EXCEPT !.stored = StoredValue(l.value)],
                                   test),
              m |-> l.m]

App_saveHourlyWage(p, wage, keysToRemove) ==
    LET validationResult == IV_validateWage(wage)
    IN  IF ~validationResult.isValid
        THEN [p |-> p,
              ret |-> [success |-> FALSE, error |-> "invalid_wage",
                       warning |-> "none", fallbackUsed |-> FALSE]]
        ELSE LET r == SM_saveSettings(p.m, "hourlyWage",
                                      SV_Number(validationResult.value.n),
                                      keysToRemove)
                 a1 == App_setHourlyWage(p.a, validationResult.value)
                 stored == SM_loadSettings(r.m, "hourlyWage", SV_Number(0))
             IN  [p |-> [a |-> [a1 EXCEPT !.stored =
                                    StoredValue(stored.ret.value)],
                         m |-> r.m],
                  ret |-> r.ret]

\* Faulty variant of stop: an application that is not initialized is
\* initialized first, as start() does.
App_stop_AutoInit(a, t) ==
    LET a1 == IF ~a.init THEN App_initialize(a, FALSE) ELSE a
    IN  [a1 EXCEPT !.c = TM_stop(a1.c, t), !.wc = WC_stop(a1.wc)]

\* Faulty variant of stop: it halts the timer and leaves the counter running.
App_stop_TimerOnly(a, t) ==
    IF ~a.init THEN a
    ELSE [a EXCEPT !.c = TM_stop(a.c, t)]

App_stop(a, t) ==
    IF ~a.init THEN a
    ELSE [a EXCEPT !.c = TM_stop(a.c, t), !.wc = WC_stop(a.wc)]

App_reset(a, t) ==
    IF ~a.init THEN a
    ELSE [a EXCEPT !.c = TM_reset(a.c, t), !.wc = WC_reset(a.wc)]

App_updateEarnings(a, t, test) ==
    IF ~a.init THEN a
    ELSE LET elapsedSeconds == Num(TM_getElapsedSeconds(a.c.tm, t))
             w1 == WC_updateElapsedTime(a.wc, elapsedSeconds)
             currentHourlyWage == w1.hourlyWage
             newEarnings ==
                 IF Ge(currentHourlyWage, Num(0))
                 THEN IF TestWageOverrideDefined /\ test
                      THEN Mul(DivInt(TestWageOverride, SecondsPerHour),
                               elapsedSeconds)
                      ELSE Mul(DivInt(currentHourlyWage, SecondsPerHour),
                               elapsedSeconds)
                 ELSE Num(0)
         IN  [a EXCEPT !.wc = WC_setCurrentEarnings(w1, newEarnings)]

App_isStateSynchronized(a) ==
    IF ~a.init THEN TRUE
    ELSE a.c.tm.isRunning = a.wc.isRunning

\* Faulty variant of the handler: no try/catch around callback().
TM_onInterval_NoCatch(a, t, test, outcome) ==
    IF outcome = "collected"
    THEN [a |-> [a EXCEPT !.c = TM_stop(a.c, t)], ret |-> "undefined"]
    ELSE IF outcome = "throws"
    THEN [a |-> a, ret |-> "throws"]
    ELSE IF outcome = "stops"
    THEN [a |-> [a EXCEPT !.c = TM_stop(a.c, t)], ret |-> "undefined"]
    ELSE IF outcome = "absent"
    THEN [a |-> a, ret |-> "undefined"]
    ELSE [a |-> App_updateEarnings(a, t, test), ret |-> "undefined"]

\* Faulty variant of the handler: a collected callback is skipped and the
\* timer goes on.
TM_onInterval_IgnoresCollected(a, t, test, outcome) ==
    IF outcome \in {"collected", "throws"}
    THEN [a |-> a, ret |-> "undefined"]
    ELSE IF outcome = "stops"
    THEN [a |-> [a EXCEPT !.c = TM_stop(a.c, t)], ret |-> "undefined"]
    ELSE IF outcome = "absent"
    THEN [a |-> a, ret |-> "undefined"]
    ELSE [a |-> App_updateEarnings(a, t, test), ret |-> "undefined"]

\* The setInterval handler installed by TimerManager.start.  outcome is
\* what this firing meets: "returns", the callback runs to its end;
\* "throws", the callback throws (before it changed anything); "stops",
\* the callback is one that calls stop() on the timer;
\* "collected", weakCallback.deref() finds the callback collected (or
\* gives a value that is not a function); "absent", no callback was given
\* and weakCallback is null.  (The
\* application's callback is held by TimerManager.callback and
\* updateEarnings does not throw: the application only meets "returns".)
\* ret is how the handler itself ends: "undefined", it returns; "throws",
\* an exception leaves it.
TM_onInterval(a, t, test, outcome) ==
    IF outcome = "collected"
    THEN [a |-> [a EXCEPT !.c = TM_stop(a.c, t)], ret |-> "undefined"]
    ELSE IF outcome = "throws"
    THEN [a |-> a, ret |-> "undefined"]
    ELSE IF outcome = "stops"
    THEN [a |-> [a EXCEPT !.c = TM_stop(a.c, t)], ret |-> "undefined"]
    ELSE IF outcome = "absent"
    THEN [a |-> a, ret |-> "undefined"]
    ELSE [a |-> App_updateEarnings(a, t, test), ret |-> "undefined"]

(* ------------------------- PerformanceOptimizer ------------------------ *)
\* An optimizer o is the fields the interval handling reads and writes;
\* the app's Clock is c.
PO_new ==
    [isInitialized |-> FALSE, isPageVisible |-> TRUE,
     originalUpdateInterval |-> UnsavedUpdateInterval]

\* adjustUpdateInterval: nothing without a timerManager; the interval in
\* force is saved while the saved one is 1000; then the background interval
\* when the page is not visible, the saved one when it is.
PO_adjustUpdateInterval(o, c, init, t) ==
    IF ~init THEN [o |-> o, c |-> c]
    ELSE LET o1 == IF o.originalUpdateInterval = UnsavedUpdateInterval
                   THEN [o EXCEPT !.originalUpdateInterval = c.tm.updateInterval]
                   ELSE o
         IN  [o |-> o1,
              c |-> TM_setUpdateInterval(
                      c,
                      Num(IF ~o1.isPageVisible THEN BackgroundUpdateInterval
                          ELSE o1.originalUpdateInterval),
                      t)]

\* handleVisibilityChange: both branches adjust the interval (the visible
\* one also redraws the display, which holds no state of the model).
PO_handleVisibilityChange(o, c, init, state, t) ==
    PO_adjustUpdateInterval([o EXCEPT !.isPageVisible = (state = "visible")],
                            c, init, t)

\* initialize, as far as the interval goes: once only;
\* setupVisibilityChangeListener registers the handler, reads the
\* visibility and adjusts the interval.
PO_initialize(o, c, init, state, t) ==
    IF o.isInitialized THEN [o |-> o, c |-> c]
    ELSE LET r == PO_adjustUpdateInterval(
                      [o EXCEPT !.isPageVisible = (state = "visible")],
                      c, init, t)
         IN  [o |-> [r.o EXCEPT !.isInitialized = TRUE], c |-> r.c]

\* optimizeDOMUpdates: the closure of the returned function. rafId is null
\* (FALSE) or the handle of the requested frame (TRUE).
PO_optimizeDOMUpdates ==
    [lastUpdateTime |-> 0, pendingUpdate |-> FALSE, rafId |-> FALSE]

\* The returned function, called at t: updateFn runs when minInterval has
\* passed since lastUpdateTime; otherwise a frame is requested unless one is
\* pending.
PO_optimizedUpdate(d, t) ==
    IF t - d.lastUpdateTime >= MinInterval
    THEN [d |-> [d EXCEPT !.lastUpdateTime = t], ret |-> "executed",
          requested |-> FALSE]
    ELSE IF d.pendingUpdate
    THEN [d |-> d, ret |-> "undefined", requested |-> FALSE]
    ELSE [d |-> [d EXCEPT !.pendingUpdate = TRUE, !.rafId = TRUE],
          ret |-> "rafId", requested |-> TRUE]

\* The callback given to requestAnimationFrame, run at t.
PO_animationFrame(d, t) ==
    [d EXCEPT !.lastUpdateTime = t, !.pendingUpdate = FALSE, !.rafId = FALSE]

(* ------------------------------ actions -------------------------------- *)
NoArg == Num(0)
\* savedWage.by: no Coordinator has saved a wage ("none"), this one has
\* ("this"), or one before this one ("earlier").
NoSavedWage == [value |-> Num(0), by |-> "none"]
\* rateBefore when the rate was not changed while Paused.
NoRate == [changed |-> FALSE, rate |-> Num(0)]

AppState ==
    [wc |-> wc, c |-> [tm |-> tm, sched |-> scheduled],
     init |-> isInitialized, stored |-> storedWage]

\* The fresh page: new WageCounterApp(), nothing initialized.
NewApp(sw) ==
    [wc |-> WC_new, c |-> [tm |-> TM_new, sched |-> {}],
     init |-> FALSE, stored |-> sw]

\* The Coordinator's lifecycle state: Paused is stopped with a session begun
\* (start() has run since the last reset), Idle is stopped without one.
Lifecycle ==
    IF ~isInitialized THEN "Uninitialized"
    ELSE IF wc.isRunning THEN "Running"
    ELSE IF wc.startTime # NoTime THEN "Paused"
    ELSE "Idle"

\* Assign the program state from a, record the call, keep the histories
\* (cleared by a reset of the Clock).
Moves(a, op, arg, ret, cleared) ==
    /\ wc' = a.wc
    /\ tm' = a.c.tm
    /\ scheduled' = a.c.sched
    /\ isInitialized' = a.init
    /\ storedWage' = a.stored
    /\ lastOp' = op
    /\ lastArg' = arg
    /\ lastRet' = ret
    /\ lastFrom' = Lifecycle
    /\ lastRunning' = tm.isRunning
    /\ segments' = IF cleared THEN 0
                   ELSE IF ~tm.isRunning /\ a.c.tm.isRunning /\ segments < MaxSegments
                        THEN segments + 1
                        ELSE segments
    /\ activeMs' = IF cleared THEN 0 ELSE activeMs
    /\ idleMs' = IF cleared THEN 0 ELSE idleMs
    /\ UNCHANGED <<now, testMode>>

Becomes(a, op, arg, ret, cleared) ==
    /\ Moves(a, op, arg, ret, cleared)
    /\ UNCHANGED PrecisionVars
    /\ UNCHANGED StorageVars
    /\ UNCHANGED OtherVars

\* The wall clock moves on by d ms between two calls.
Advance ==
    \E d \in {Step, 2 * Step} :
        /\ now + d <= T0 + MaxTime
        /\ now' = now + d
        /\ activeMs' = IF tm.isRunning THEN activeMs + d ELSE activeMs
        /\ idleMs' = IF ~tm.isRunning /\ segments > 0 THEN idleMs + d ELSE idleMs
        /\ lastOp' = "advance"
        /\ lastArg' = NoArg
        /\ lastRet' = "undefined"
        /\ lastFrom' = Lifecycle
        /\ lastRunning' = tm.isRunning
        /\ UNCHANGED <<wc, tm, isInitialized, scheduled, storedWage, testMode,
                       segments, loopIndex, accumulated>>
        /\ UNCHANGED StorageVars
        /\ UNCHANGED OtherVars

\* --- the Coordinator's operations
Initialize ==
    Becomes(App_initialize(AppState, testMode), "initialize", NoArg,
            "undefined", FALSE)

SetHourlyWage ==
    \E wage \in AppWageInputs :
        Becomes(App_setHourlyWage(AppState, wage), "setHourlyWage", wage,
                "undefined", FALSE)

Start ==
    LET r == App_start(AppState, now, testMode)
    IN  Becomes(r.a, "start", NoArg, r.ret, FALSE)

Stop ==
    Becomes(App_stop(AppState, now), "stop", NoArg, "undefined", FALSE)

Reset ==
    Becomes(App_reset(AppState, now), "reset", NoArg, "undefined",
            isInitialized)

UpdateEarnings ==
    Becomes(App_updateEarnings(AppState, now, testMode), "updateEarnings",
            NoArg, "undefined", FALSE)

\* --- the host: a live interval timer fires; the tick interval is changed
Tick ==
    \E s \in scheduled :
        LET r == TM_onInterval(AppState, now, testMode, "returns")
        IN  Becomes(r.a, "tick", NoArg, r.ret, FALSE)

\* A Clock whose callback throws, or was dropped and collected.
TickThrows ==
    \E s \in scheduled :
        LET r == TM_onInterval(AppState, now, testMode, "throws")
        IN  Becomes(r.a, "tick.throws", NoArg, r.ret, FALSE)

TickCollected ==
    \E s \in scheduled :
        LET r == TM_onInterval(AppState, now, testMode, "collected")
        IN  Becomes(r.a, "tick.collected", NoArg, r.ret, FALSE)

\* What the handler meets on a Clock constructed with a callback of the
\* given kind.
HandlerOutcome(callback) ==
    IF callback = "function" THEN "returns"
    ELSE IF callback \in {"null", "undefined"} THEN "absent"
    ELSE "collected"

TickAsConstructed ==
    \E s \in scheduled :
        LET r == TM_onInterval(AppState, now, testMode,
                               HandlerOutcome(tm.callback))
        IN  Becomes(r.a, "tick.constructed", NoArg, r.ret, FALSE)

\* A Clock whose callback calls stop() on it.
TickStops ==
    \E s \in scheduled :
        LET r == TM_onInterval(AppState, now, testMode, "stops")
        IN  Becomes(r.a, "tick.stops", NoArg, r.ret, FALSE)

SetUpdateInterval ==
    /\ isInitialized
    /\ \E interval \in IntervalInputs :
          Becomes([AppState EXCEPT
                      !.c = TM_setUpdateInterval(AppState.c, interval, now)],
                  "setUpdateInterval", interval, "undefined", FALSE)

\* --- the Clock's operations, called on the TimerManager itself
ClockStart ==
    /\ isInitialized
    /\ Becomes([AppState EXCEPT !.c = TM_start(AppState.c, now)],
               "timer.start", NoArg,
               IF TM_startThrows(AppState.c) THEN "throws" ELSE "undefined",
               FALSE)

ClockStop ==
    /\ isInitialized
    /\ Becomes([AppState EXCEPT !.c = TM_stop(AppState.c, now)],
               "timer.stop", NoArg, "undefined", FALSE)

ClockReset ==
    /\ isInitialized
    /\ Becomes([AppState EXCEPT !.c = TM_reset(AppState.c, now)],
               "timer.reset", NoArg, "undefined", TRUE)

\* --- a fault from outside: timer.intervalId = null while the host's timer
\* stays live
LoseHandle ==
    /\ isInitialized
    /\ tm.intervalId # NoInterval
    /\ Cardinality(scheduled) <= MaxLeaks
    /\ Becomes([AppState EXCEPT !.c.tm.intervalId = NoInterval],
               "handle.lost", NoArg, "undefined", FALSE)

\* --- the formatters: the counter and the timer are given the same number
\* of seconds (the tests write timer.pausedTime directly) and are read
FormatElapsedTime ==
    \E s \in FormatSeconds :
        LET w == WC_setElapsedTime(wc, Num(s))
        IN  Becomes([AppState EXCEPT
                        !.wc = w,
                        !.c.tm.pausedTime = s * MsPerSecond],
                    "getFormattedElapsedTime", Num(s),
                    WC_getFormattedElapsedTime(w), FALSE)

\* --- the precision loop: the rate is set and read, the sum starts at 0 ...
PrecisionBegin ==
    \E rate \in PrecisionRates :
        /\ Moves([AppState EXCEPT !.wc = WC_setHourlyWage(wc, Num(rate))],
                 "precision.begin", Num(rate), "undefined", FALSE)
        /\ loopIndex' = 0
        /\ accumulated' = DoubleZero
        /\ UNCHANGED StorageVars
        /\ UNCHANGED OtherVars

\* ... and the rate per second is added to it PrecisionLoopCount times.
PrecisionAdd ==
    /\ lastOp \in {"precision.begin", "precision.add"}
    /\ loopIndex < PrecisionLoopCount
    /\ Moves(AppState, "precision.add", NoArg, "undefined", FALSE)
    /\ loopIndex' = loopIndex + 1
    /\ accumulated' = DoubleAdd(accumulated, ToDouble(wc.perSecondWage))
    /\ UNCHANGED StorageVars
    /\ UNCHANGED OtherVars

\* --- the StorageManager's operations
StorageState == [s |-> storage, ls |-> localStorage]

StorageBecomes(m, op, arg, ret) ==
    /\ storage' = m.s
    /\ localStorage' = m.ls
    /\ lastOp' = op
    /\ lastArg' = arg
    /\ lastRet' = ret
    /\ UNCHANGED <<wc, tm, isInitialized, scheduled, now, storedWage, testMode,
                   lastFrom, lastRunning, loopIndex, accumulated,
                   storageAllowed, savedWage, segments, activeMs, idleMs>>
    /\ UNCHANGED OtherVars

\* cleanupOldData is reached when the first setItem throws.
SaveSettings ==
    \E key \in StorageKeys, value \in StorageValues :
      \E keysToRemove \in
             IF storage.isAvailable /\ ~InvalidKey(key)
                  /\ SetItemThrows(localStorage, PrefixedKey(key), value.s)
             THEN CleanupChoices(localStorage) ELSE {{}} :
        LET r == SM_saveSettings(StorageState, key, value, keysToRemove)
        IN  /\ StorageBecomes(r.m, "saveSettings",
                              [key |-> key, value |-> value], r.ret)
            /\ savedKeys' = IF InvalidKey(key) THEN savedKeys
                            ELSE savedKeys \cup {key}

LoadSettings ==
    \E key \in LoadKeys, defaultValue \in StorageDefaults :
        LET r == SM_loadSettings(StorageState, key, defaultValue)
        IN  /\ StorageBecomes(r.m, "loadSettings",
                              [key |-> key, value |-> defaultValue], r.ret)
            /\ UNCHANGED savedKeys

RemoveSettings ==
    \E key \in StorageKeys :
        LET r == SM_removeSettings(StorageState, key)
        IN  /\ StorageBecomes(r.m, "removeSettings",
                              [key |-> key, value |-> SV_Undefined], r.ret)
            /\ UNCHANGED savedKeys

ClearAllSettings ==
    LET r == SM_clearAllSettings(StorageState)
    IN  /\ StorageBecomes(r.m, "clearAllSettings",
                          [key |-> "", value |-> SV_Undefined], r.ret)
        /\ UNCHANGED savedKeys

\* The page is loaded again: new StorageManager() over the same
\* localStorage.
NewStorageManager ==
    /\ StorageBecomes([s |-> SM_new(localStorage, storageAllowed),
                       ls |-> localStorage],
                      "new StorageManager",
                      [key |-> "", value |-> SV_Undefined], "undefined")
    /\ UNCHANGED savedKeys

\* --- the Coordinator's operations with its StorageManager
SessionBecomes(p, op, arg, ret) ==
    /\ Moves(p.a, op, arg, ret, FALSE)
    /\ storage' = p.m.s
    /\ localStorage' = p.m.ls
    /\ UNCHANGED <<loopIndex, accumulated, storageAllowed>>
    /\ UNCHANGED OtherVars

SessionInitialize ==
    \E keysToRemove1 \in CleanupChoices(localStorage) :
      \E keysToRemove2 \in
             CleanupChoices(SM_saveSettings(StorageState, "hourlyWage",
                                            SV_Number(TestModeWage),
                                            keysToRemove1).m.ls) :
        /\ SessionBecomes(App_initializeWith([a |-> AppState, m |-> StorageState],
                                             testMode, keysToRemove1,
                                             keysToRemove2),
                          "initialize", NoArg, "undefined")
        /\ savedKeys' = IF testMode /\ ~isInitialized
                        THEN savedKeys \cup {"hourlyWage", "visualizationMode"}
                        ELSE savedKeys
        /\ UNCHANGED savedWage

SessionSaveHourlyWage ==
    \E wage \in AppWageInputs, keysToRemove \in CleanupChoices(localStorage) :
        LET r == App_saveHourlyWage([a |-> AppState, m |-> StorageState], wage,
                                    keysToRemove)
        IN  /\ SessionBecomes(r.p, "saveHourlyWage", wage, r.ret)
            /\ savedKeys' = IF r.ret.error = "invalid_wage" THEN savedKeys
                            ELSE savedKeys \cup {"hourlyWage"}
            /\ savedWage' = IF r.ret.success
                            THEN [value |-> wage, by |-> "this"]
                            ELSE savedWage

SessionSetHourlyWage ==
    \E wage \in AppWageInputs :
        /\ SessionBecomes([a |-> App_setHourlyWage(AppState, wage),
                           m |-> StorageState],
                          "setHourlyWage", wage, "undefined")
        /\ UNCHANGED <<savedKeys, savedWage>>

\* The page is loaded again: new WageCounterApp(), with a new
\* StorageManager over the same localStorage.
SessionNew ==
    /\ SessionBecomes([a |-> NewApp(Num(0)),
                       m |-> [s |-> SM_new(localStorage, storageAllowed),
                              ls |-> localStorage]],
                      "new WageCounterApp", NoArg, "undefined")
    /\ savedWage' = IF savedWage.by = "this"
                    THEN [savedWage EXCEPT !.by = "earlier"]
                    ELSE savedWage
    /\ UNCHANGED savedKeys

\* --- the Coordinator's operations, with the rate that was in force
\* before the first change made while Paused recorded until the reset
RateBecomes(a, op, arg, ret, cleared) ==
    /\ Moves(a, op, arg, ret, cleared)
    /\ rateBefore' =
          IF cleared THEN NoRate
          ELSE IF op = "setHourlyWage" /\ Lifecycle = "Paused"
                    /\ ~rateBefore.changed
               THEN [changed |-> TRUE, rate |-> wc.hourlyWage]
               ELSE rateBefore
    /\ UNCHANGED PrecisionVars
    /\ UNCHANGED StorageVars
    /\ UNCHANGED OptimizerVars
    /\ UNCHANGED ThrottleVars

RateSetHourlyWage ==
    \E wage \in AppWageInputs :
        RateBecomes(App_setHourlyWage(AppState, wage), "setHourlyWage", wage,
                    "undefined", FALSE)

RateStart ==
    LET r == App_start(AppState, now, testMode)
    IN  RateBecomes(r.a, "start", NoArg, r.ret, FALSE)

RateStop ==
    RateBecomes(App_stop(AppState, now), "stop", NoArg, "undefined", FALSE)

RateReset ==
    RateBecomes(App_reset(AppState, now), "reset", NoArg, "undefined",
                isInitialized)

RateUpdateEarnings ==
    RateBecomes(App_updateEarnings(AppState, now, testMode), "updateEarnings",
                NoArg, "undefined", FALSE)

\* --- the Accumulator's operations, called on the WageCounter itself
CounterUpdateElapsedTime ==
    \E seconds \in SecondsInputs :
        Becomes([AppState EXCEPT !.wc = WC_updateElapsedTime(wc, seconds)],
                "updateElapsedTime", seconds, "undefined", FALSE)

CounterSetElapsedTime ==
    \E seconds \in SecondsInputs :
        Becomes([AppState EXCEPT !.wc = WC_setElapsedTime(wc, seconds)],
                "setElapsedTime", seconds, "undefined", FALSE)

CounterUpdateCurrentEarnings ==
    Becomes([AppState EXCEPT !.wc = WC_updateCurrentEarnings(wc)],
            "updateCurrentEarnings", NoArg, "undefined", FALSE)

CounterSetHourlyWage ==
    \E wage \in WageInputs :
        Becomes([AppState EXCEPT !.wc = WC_setHourlyWage(wc, wage)],
                "counter.setHourlyWage", wage, "undefined", FALSE)

CounterStart ==
    Becomes([AppState EXCEPT !.wc = WC_start(wc, now)],
            "counter.start", NoArg, "undefined", FALSE)

CounterStop ==
    Becomes([AppState EXCEPT !.wc = WC_stop(wc)],
            "counter.stop", NoArg, "undefined", FALSE)

CounterReset ==
    Becomes([AppState EXCEPT !.wc = WC_reset(wc)],
            "counter.reset", NoArg, "undefined", FALSE)

(* --------------------------- specifications ---------------------------- *)
\* --- the PerformanceOptimizer of an initialized application: the page is
\* hidden and shown (the handler runs once initialize has registered it)
OptimizerBecomes(r, state, op) ==
    /\ Moves([AppState EXCEPT !.c = r.c], op, NoArg, "undefined", FALSE)
    /\ optimizer' = r.o
    /\ visibilityState' = state
    /\ intervalBeforeHide' =
          IF op = "page.hidden" THEN tm.updateInterval ELSE intervalBeforeHide
    /\ UNCHANGED rateBefore
    /\ UNCHANGED PrecisionVars
    /\ UNCHANGED StorageVars
    /\ UNCHANGED ThrottleVars

OptimizerInitialize ==
    /\ ~optimizer.isInitialized
    /\ OptimizerBecomes(PO_initialize(optimizer, AppState.c, isInitialized,
                                      visibilityState, now),
                        visibilityState, "optimizer.initialize")

PageHidden ==
    /\ visibilityState = "visible"
    /\ OptimizerBecomes(
          IF optimizer.isInitialized
          THEN PO_handleVisibilityChange(optimizer, AppState.c, isInitialized,
                                         "hidden", now)
          ELSE [o |-> optimizer, c |-> AppState.c],
          "hidden", "page.hidden")

PageVisible ==
    /\ visibilityState = "hidden"
    /\ OptimizerBecomes(
          IF optimizer.isInitialized
          THEN PO_handleVisibilityChange(optimizer, AppState.c, isInitialized,
                                         "visible", now)
          ELSE [o |-> optimizer, c |-> AppState.c],
          "visible", "page.visible")

\* --- the function optimizeDOMUpdates returned: it is called, the host
\* runs the requested frame, the wall clock moves on
ThrottleBecomes(d, op, ret, frames1) ==
    /\ domUpdate' = d
    /\ frames' = frames1
    /\ lastExecution' = IF ret = "executed" THEN now ELSE lastExecution
    /\ lastOp' = op
    /\ lastArg' = NoArg
    /\ lastRet' = ret
    /\ lastFrom' = Lifecycle
    /\ lastRunning' = tm.isRunning
    /\ UNCHANGED <<wc, tm, isInitialized, scheduled, now, storedWage,
                   testMode, segments, activeMs, idleMs, rateBefore>>
    /\ UNCHANGED PrecisionVars
    /\ UNCHANGED StorageVars
    /\ UNCHANGED OptimizerVars

OptimizedUpdate ==
    LET r == PO_optimizedUpdate(domUpdate, now)
    IN  ThrottleBecomes(r.d, "optimizedUpdate", r.ret,
                        IF r.requested THEN frames \cup {now} ELSE frames)

\* The host runs a requested frame, at a later time than the request.
AnimationFrame ==
    \E f \in frames :
        /\ now > f
        /\ ThrottleBecomes(PO_animationFrame(domUpdate, now),
                           "animationFrame", "executed", frames \ {f})

FramePasses ==
    /\ now + FrameStep <= T0 + MaxTime
    /\ now' = now + FrameStep
    /\ lastOp' = "advance"
    /\ lastArg' = NoArg
    /\ lastRet' = "undefined"
    /\ lastFrom' = Lifecycle
    /\ lastRunning' = tm.isRunning
    /\ UNCHANGED <<wc, tm, isInitialized, scheduled, storedWage, testMode,
                   segments, activeMs, idleMs>>
    /\ UNCHANGED PrecisionVars
    /\ UNCHANGED StorageVars
    /\ UNCHANGED OtherVars

InitCore(a) ==
    /\ wc = a.wc
    /\ tm = a.c.tm
    /\ scheduled = a.c.sched
    /\ isInitialized = a.init
    /\ storedWage = a.stored
    /\ now = T0
    /\ lastOp = "new"
    /\ lastArg = NoArg
    /\ lastRet = "undefined"
    /\ lastFrom = "Uninitialized"
    /\ lastRunning = FALSE
    /\ loopIndex = 0
    /\ accumulated = DoubleZero
    /\ segments = 0
    /\ activeMs = 0
    /\ idleMs = 0
    /\ rateBefore = NoRate
    /\ visibilityState = "visible"
    /\ optimizer = PO_new
    /\ intervalBeforeHide = NoInterval
    /\ domUpdate = PO_optimizeDOMUpdates
    /\ frames = {}
    /\ lastExecution = NoTime

InitFrom(a) ==
    /\ InitCore(a)
    /\ localStorage = EmptyObject
    /\ storageAllowed = TRUE
    /\ storage = SM_new(EmptyObject, TRUE)
    /\ savedKeys = {}
    /\ savedWage = NoSavedWage

\* The Coordinator, driven through its own operations and by the host.
Init ==
    /\ testMode \in BOOLEAN
    /\ \E sw \in StoredWages : InitFrom(NewApp(sw))

Next ==
    \/ Initialize
    \/ SetHourlyWage
    \/ Start
    \/ Stop
    \/ Reset
    \/ UpdateEarnings
    \/ SetUpdateInterval
    \/ Tick
    \/ Advance

Spec == Init /\ [][Next]_vars

\* The Clock of an initialized application, driven directly.
InitClock ==
    /\ testMode \in BOOLEAN
    /\ \E sw \in StoredWages : InitFrom(App_initialize(NewApp(sw), testMode))

NextClock ==
    \/ ClockStart
    \/ ClockStop
    \/ ClockReset
    \/ SetUpdateInterval
    \/ Tick
    \/ TickThrows
    \/ TickCollected
    \/ TickStops
    \/ Advance

SpecClock == InitClock /\ [][NextClock]_vars

\* A Clock constructed with any kind of callback.
InitCallback ==
    /\ testMode \in BOOLEAN
    /\ \E sw \in StoredWages, callback \in CallbackKinds :
          InitFrom([App_initialize(NewApp(sw), testMode)
                       EXCEPT !.c.tm = TM_newWith(callback)])

NextCallback ==
    \/ ClockStart
    \/ ClockStop
    \/ ClockReset
    \/ TickAsConstructed
    \/ Advance

SpecCallback == InitCallback /\ [][NextCallback]_vars

\* The StorageManager, driven directly, over a localStorage that the host
\* allows or not.
InitStorage ==
    /\ testMode = FALSE
    /\ InitCore(NewApp(Num(0)))
    /\ localStorage \in InitialStorages
    /\ storageAllowed \in BOOLEAN
    /\ storage = SM_new(localStorage, storageAllowed)
    /\ savedKeys = {}
    /\ savedWage = NoSavedWage

NextStorage ==
    \/ SaveSettings
    \/ LoadSettings
    \/ RemoveSettings
    \/ ClearAllSettings
    \/ NewStorageManager

SpecStorage == InitStorage /\ [][NextStorage]_vars

\* The Coordinator with its StorageManager, over page loads.
InitSession ==
    /\ testMode \in BOOLEAN
    /\ InitCore(NewApp(Num(0)))
    /\ localStorage \in InitialStorages
    /\ storageAllowed \in BOOLEAN
    /\ storage = SM_new(localStorage, storageAllowed)
    /\ savedKeys = {}
    /\ savedWage = NoSavedWage

NextSession ==
    \/ SessionInitialize
    \/ SessionSaveHourlyWage
    \/ SessionSetHourlyWage
    \/ SessionNew

SpecSession == InitSession /\ [][NextSession]_vars

\* The Coordinator after initialize(), with the rate changes recorded.
NextRate ==
    \/ RateSetHourlyWage
    \/ RateStart
    \/ RateStop
    \/ RateReset
    \/ RateUpdateEarnings
    \/ Advance

SpecRate == InitClock /\ [][NextRate]_vars

\* The PerformanceOptimizer over the Clock of an initialized application.
NextOptimizer ==
    \/ OptimizerInitialize
    \/ PageHidden
    \/ PageVisible
    \/ SetUpdateInterval
    \/ ClockStart
    \/ ClockStop
    \/ Tick
    \/ Advance

SpecOptimizer == InitClock /\ [][NextOptimizer]_vars

\* The function optimizeDOMUpdates(updateFn, 100) returned, on a fresh page.
NextThrottle ==
    \/ OptimizedUpdate
    \/ AnimationFrame
    \/ FramePasses

InitThrottle ==
    /\ testMode = FALSE
    /\ InitFrom(NewApp(Num(0)))

SpecThrottle == InitThrottle /\ [][NextThrottle]_vars

\* The precision tests on a new WageCounter.
NextPrecision ==
    \/ PrecisionBegin
    \/ PrecisionAdd

SpecPrecision == Init /\ [][NextPrecision]_vars

\* The Clock when its timer handle can be lost from outside.
NextFault ==
    \/ ClockStart
    \/ ClockStop
    \/ ClockReset
    \/ Tick
    \/ LoseHandle
    \/ Advance

SpecFault == InitClock /\ [][NextFault]_vars

\* The Clock through all its operations, its tick interval changed and its
\* timer handle lost from outside.
NextLeak ==
    \/ ClockStart
    \/ ClockStop
    \/ ClockReset
    \/ SetUpdateInterval
    \/ Tick
    \/ LoseHandle
    \/ Advance

SpecLeak == InitClock /\ [][NextLeak]_vars

\* The formatters of a stopped, initialized application.
NextFormat == FormatElapsedTime

SpecFormat == InitClock /\ [][NextFormat]_vars

\* The Accumulator alone, driven directly with any argument.
NextCounter ==
    \/ CounterSetHourlyWage
    \/ CounterUpdateElapsedTime
    \/ CounterSetElapsedTime
    \/ CounterUpdateCurrentEarnings
    \/ CounterStart
    \/ CounterStop
    \/ CounterReset

SpecCounter == Init /\ [][NextCounter]_vars

(* ------------------------------- claims -------------------------------- *)
StrictlyPositive(v) == v.k = "num" /\ v.n > 0
\* A non-negative number of seconds / a rate the interface accepts.
ValidSeconds(v) == v.k = "num" /\ v.n >= 0
ValidRate(v) == v.k = "num" /\ v.n >= 0

\* C1: whenever the Coordinator is initialized, the Clock's running flag
\* equals the Accumulator's (isStateSynchronized() returns true), in every
\* state reached through Coordinator operations, interval changes and ticks.
C1_Synchronized ==
    /\ App_isStateSynchronized(AppState)
    /\ isInitialized => (tm.isRunning <=> wc.isRunning)

\* A running Coordinator whose Clock was just restarted by an interval change.
C1_Witness ==
    /\ isInitialized /\ lastOp = "setUpdateInterval"
    /\ lastFrom = "Running" /\ tm.isRunning /\ wc.isRunning
    /\ tm.updateInterval = BackgroundUpdateInterval /\ tm.pausedTime > 0

\* C2: start() called while not running with a rate that is not strictly
\* positive returns the failure indicator and starts neither component, so
\* getState().isRunning is false afterward.
C2_StartRefused ==
    (lastOp = "start" /\ lastFrom # "Running"
        /\ ~StrictlyPositive(wc.hourlyWage))
    => (lastRet = "false" /\ ~wc.isRunning /\ ~tm.isRunning)

\* C3: the Clock's elapsed seconds are the whole seconds of the time spent
\* running, summed over the segments with their sub-second remainders,
\* whatever the pauses between them were.
C3_PauseResume ==
    isInitialized => TM_getElapsedSeconds(tm, now) = FloorSeconds(activeMs)

\* Second segment open after a pause; each segment is shorter than a second
\* and together they make one.
C3_Witness ==
    /\ segments = 2 /\ idleMs > 0 /\ tm.isRunning
    /\ tm.pausedTime > 0 /\ tm.pausedTime < MsPerSecond
    /\ now - tm.startTime > 0 /\ now - tm.startTime < MsPerSecond
    /\ TM_getElapsedSeconds(tm, now) = 1

\* C4: across start, stop, setUpdateInterval, ticks and the passing of time
\* (every step but a reset) the Clock's elapsed seconds never decrease, do
\* not change while the Clock is stopped, and are a non-negative integer.
C4_Monotonic ==
    [][lastOp' # "timer.reset" =>
          /\ TM_getElapsedSeconds(tm', now') >= TM_getElapsedSeconds(tm, now)
          /\ (~tm.isRunning /\ ~tm'.isRunning) =>
                 TM_getElapsedSeconds(tm', now') = TM_getElapsedSeconds(tm, now)
          /\ TM_getElapsedSeconds(tm', now') \in Nat]_vars

\* An interval change restarted the running Clock in its first segment, a
\* second or more into it.
C4_Witness ==
    /\ lastOp = "setUpdateInterval" /\ segments = 1 /\ tm.isRunning
    /\ tm.startTime = now /\ tm.pausedTime >= MsPerSecond
    /\ TM_getElapsedSeconds(tm, now) >= 1

\* C5: reset() on an initialized Coordinator leaves both components
\* stopped, elapsedSeconds = 0, currentEarnings = 0, the session start
\* cleared and the Clock at zero, and does not change hourlyWage or
\* perSecondWage.
C5_Reset ==
    [][(lastOp' = "reset" /\ isInitialized) =>
          /\ ~wc'.isRunning /\ ~tm'.isRunning
          /\ wc'.elapsedSeconds = Num(0)
          /\ wc'.currentEarnings = Num(0)
          /\ wc'.startTime = NoTime
          /\ TM_getElapsedSeconds(tm', now') = 0
          /\ wc'.hourlyWage = wc.hourlyWage
          /\ wc'.perSecondWage = wc.perSecondWage]_vars

\* Reset of a running Coordinator with a positive rate, after time passed.
C5_Witness ==
    /\ lastOp = "reset" /\ lastFrom = "Running"
    /\ StrictlyPositive(wc.hourlyWage) /\ now > T0
    /\ wc.elapsedSeconds = Num(0) /\ ~wc.isRunning

\* C6 as stated: in every state of the Accumulator the accrued amount is
\* perSecondWage * elapsedSeconds (stated for valid rates and seconds).
C6_NoStaleAccrual ==
    (ValidRate(wc.hourlyWage) /\ ValidSeconds(wc.elapsedSeconds))
    => wc.currentEarnings = Mul(wc.perSecondWage, wc.elapsedSeconds)

\* C6 as amended: updateElapsedTime(s) with valid s, and
\* updateCurrentEarnings(), leave currentEarnings = perSecondWage *
\* elapsedSeconds; setHourlyWage, setElapsedTime, start and stop leave
\* currentEarnings as it was; reset sets it and elapsedSeconds to 0.
C6_AccrualAfterUpdate ==
    [][/\ (lastOp' \in {"updateElapsedTime", "updateCurrentEarnings"}
              /\ ValidSeconds(wc'.elapsedSeconds))
          => wc'.currentEarnings = Mul(wc'.perSecondWage, wc'.elapsedSeconds)
       /\ lastOp' \in {"counter.setHourlyWage", "setElapsedTime",
                       "counter.start", "counter.stop"}
          => wc'.currentEarnings = wc.currentEarnings
       /\ lastOp' = "counter.reset"
          => (wc'.currentEarnings = Num(0) /\ wc'.elapsedSeconds = Num(0))
      ]_vars

\* A rate change left the accrued amount of the old rate in place.
C6_Witness ==
    /\ lastOp = "counter.setHourlyWage"
    /\ StrictlyPositive(wc.hourlyWage) /\ StrictlyPositive(wc.elapsedSeconds)
    /\ StrictlyPositive(wc.currentEarnings)
    /\ wc.currentEarnings # Mul(wc.perSecondWage, wc.elapsedSeconds)

\* C7: after a tick or an updateEarnings() of the initialized Coordinator,
\* elapsedSeconds is the Clock's value s and currentEarnings is
\* (hourlyWage / 3600) * s, whatever came before.
C7_FullRecompute ==
    (lastOp \in {"tick", "updateEarnings"} /\ isInitialized)
    => /\ wc.elapsedSeconds = Num(TM_getElapsedSeconds(tm, now))
       /\ wc.currentEarnings =
              Mul(DivInt(wc.hourlyWage, SecondsPerHour), wc.elapsedSeconds)

\* C8: setHourlyWage(r) with r negative, NaN or non-numeric leaves
\* hourlyWage = 0 and perSecondWage = 0.
C8_InvalidRateClamped ==
    (lastOp \in {"setHourlyWage", "counter.setHourlyWage"}
        /\ ~ValidRate(lastArg))
    => (wc.hourlyWage = Num(0) /\ wc.perSecondWage = Num(0))

\* C9: in every state perSecondWage = hourlyWage / 3600 and both are
\* non-negative numbers.
C9_RateDerived ==
    /\ ValidRate(wc.hourlyWage)
    /\ ValidRate(wc.perSecondWage)
    /\ wc.perSecondWage = DivInt(wc.hourlyWage, SecondsPerHour)

\* C10: updateElapsedTime(s) with s negative, NaN or non-numeric does not
\* move elapsedSeconds backward and leaves it a non-negative number.
C10_InvalidSecondsIgnored ==
    [][(lastOp' = "updateElapsedTime" /\ ~ValidSeconds(lastArg')) =>
          /\ ~Lt(wc'.elapsedSeconds, wc.elapsedSeconds)
          /\ ValidSeconds(wc'.elapsedSeconds)]_vars

\* C11: start() on a running Clock, and start() of a Running Coordinator,
\* change nothing: isRunning, the anchor startTime, pausedTime, the session
\* start, the counter's fields and the host's timers stay as they were (no
\* second timer), and two starts in a row leave the state one start leaves.
C11_StartIdempotent ==
    [][/\ (lastOp' = "start" /\ Lifecycle = "Running")
          => /\ wc' = wc /\ tm' = tm /\ scheduled' = scheduled
             /\ isInitialized' = isInitialized /\ storedWage' = storedWage
       /\ tm.isRunning
          => TM_start([tm |-> tm, sched |-> scheduled], now)
                 = [tm |-> tm, sched |-> scheduled]
       /\ LET once == App_start(AppState, now, testMode).a
          IN  App_start(once, now, testMode).a = once
      ]_vars

\* A second start() of a Coordinator that has been running for a while.
C11_Witness ==
    /\ lastOp = "start" /\ lastFrom = "Running" /\ lastRet = "true"
    /\ tm.isRunning /\ wc.isRunning /\ now > tm.startTime
    /\ Cardinality(scheduled) = 1 /\ wc.startTime = tm.startTime

\* C12: stop() of a running Clock adds now - startTime to pausedTime, sets
\* isRunning = false and clears the interval timer, so that no handler fires
\* on a stopped Clock; stop() of a Clock that is not running changes nothing.
C12_ClockStop ==
    [][/\ (lastOp' = "timer.stop" /\ tm.isRunning)
          => /\ tm'.pausedTime = tm.pausedTime + (now - tm.startTime)
             /\ ~tm'.isRunning
             /\ tm'.intervalId = NoInterval
             /\ scheduled' = {}
       /\ (lastOp' = "timer.stop" /\ ~tm.isRunning)
          => (tm' = tm /\ scheduled' = scheduled)
       /\ lastOp' \in {"tick", "tick.throws", "tick.collected", "tick.stops"}
          => tm.isRunning
      ]_vars

\* The second segment was just closed by stop(): both are accumulated.
C12_Witness ==
    /\ lastOp = "timer.stop" /\ lastRunning /\ ~tm.isRunning
    /\ segments = 2 /\ tm.pausedTime > MsPerSecond
    /\ tm.pausedTime = activeMs /\ scheduled = {}

C14_ClockReset ==
    [][/\ lastOp' = "timer.reset"
          => /\ ~tm'.isRunning
             /\ tm'.pausedTime = 0
             /\ TM_getElapsedSeconds(tm', now') = 0
             /\ tm'.intervalId = NoInterval
             /\ scheduled' = {}
             /\ activeMs' = 0
       /\ TM_getElapsedSeconds(tm', now') = FloorSeconds(activeMs')
       /\ (lastOp' = "timer.start" /\ segments = 0)
          => (tm'.pausedTime = 0 /\ tm'.startTime = now
                /\ TM_getElapsedSeconds(tm', now') = 0)
      ]_vars

\* reset() of a running Clock, a second and a half or more after page load.
C14_Witness ==
    /\ lastOp = "timer.reset" /\ lastRunning /\ now >= T0 + 3 * Step
    /\ ~tm.isRunning /\ tm.pausedTime = 0 /\ scheduled = {}
    /\ segments = 0 /\ idleMs = 0

\* A positive number, the arguments setUpdateInterval accepts.
ValidInterval(v) == v.k = "num" /\ v.n > 0

\* C15: setUpdateInterval(ms) with ms zero, negative or not a number
\* changes nothing: updateInterval, isRunning, startTime, pausedTime, the
\* interval id and the host's timers stay as they were; with a positive
\* number getUpdateInterval() returns that number afterward.
C15_IntervalValidated ==
    [][/\ (lastOp' = "setUpdateInterval" /\ ~ValidInterval(lastArg'))
          => (tm' = tm /\ scheduled' = scheduled)
       /\ (lastOp' = "setUpdateInterval" /\ ValidInterval(lastArg'))
          => tm'.updateInterval = lastArg'.n
      ]_vars

\* A refused interval on a running Clock that ticks every five seconds.
C15_Witness ==
    /\ lastOp = "setUpdateInterval" /\ ~ValidInterval(lastArg)
    /\ lastRunning /\ tm.isRunning
    /\ tm.updateInterval = BackgroundUpdateInterval
    /\ scheduled = {[id |-> tm.intervalId, ms |-> BackgroundUpdateInterval]}
    /\ now > tm.startTime

\* C16: setUpdateInterval(ms) with a positive ms, on a running or a stopped
\* Clock, leaves isRunning as it was, leaves the elapsed time at that
\* instant as it was (in milliseconds, hence getElapsedSeconds() too),
\* leaves the Coordinator synchronized and does not touch the counter
\* (hourlyWage, perSecondWage, elapsedSeconds, currentEarnings).
C16_IntervalKeepsAccrual ==
    [][(lastOp' = "setUpdateInterval" /\ ValidInterval(lastArg'))
          => /\ tm'.isRunning = tm.isRunning
             /\ tm'.pausedTime
                  + (IF tm'.isRunning THEN now' - tm'.startTime ELSE 0)
                = tm.pausedTime
                  + (IF tm.isRunning THEN now - tm.startTime ELSE 0)
             /\ TM_getElapsedSeconds(tm', now') = TM_getElapsedSeconds(tm, now)
             /\ isInitialized' => (tm'.isRunning <=> wc'.isRunning)
             /\ wc' = wc
      ]_vars

\* The interval of a Running Coordinator was changed a second and a half
\* into the session, with earnings accrued: the open segment was folded.
C16_Witness ==
    /\ lastOp = "setUpdateInterval" /\ ValidInterval(lastArg)
    /\ lastFrom = "Running" /\ tm.isRunning /\ wc.isRunning
    /\ tm.startTime = now /\ tm.pausedTime = 3 * Step
    /\ StrictlyPositive(wc.currentEarnings)

\* The Clock holds the id of a live interval timer of the host.
TimerLive == \E s \in scheduled : s.id = tm.intervalId

\* C17: when the callback throws during a tick, the handler returns
\* normally (the exception does not leave it), the Clock is still running
\* with the same fields and its interval timer is still live, so the
\* handler fires again.
C17_CallbackThrowCaught ==
    [][lastOp' = "tick.throws"
          => /\ lastRet' = "undefined"
             /\ tm' = tm /\ tm'.isRunning
             /\ scheduled' = scheduled
             /\ TimerLive'
      ]_vars

\* The callback of a running Clock threw, some time into the segment.
C17_Witness ==
    /\ lastOp = "tick.throws" /\ lastRet = "undefined"
    /\ lastRunning /\ tm.isRunning /\ now > tm.startTime
    /\ Cardinality(scheduled) = 1 /\ TimerLive

\* C18: when a tick of a running Clock finds the callback collected, the
\* handler stops the Clock: isRunning = false, the interval timer cleared,
\* the open segment added to pausedTime.
C18_SelfStop ==
    [][(lastOp' = "tick.collected" /\ tm.isRunning)
          => /\ ~tm'.isRunning
             /\ tm'.intervalId = NoInterval
             /\ scheduled' = {}
             /\ tm'.pausedTime = tm.pausedTime + (now - tm.startTime)
             /\ TM_getElapsedSeconds(tm', now') = TM_getElapsedSeconds(tm, now)
      ]_vars

\* The Clock stopped itself a second or more into its second segment.
C18_Witness ==
    /\ lastOp = "tick.collected" /\ lastRunning /\ ~tm.isRunning
    /\ scheduled = {} /\ segments = 2
    /\ now - tm.startTime >= MsPerSecond /\ tm.pausedTime = activeMs

\* C19: once time has passed on a Clock whose stored interval id is not
\* that of a live timer (the handle was lost), the Clock is not running.
C19_HandleLossDetected ==
    (isInitialized /\ lastOp = "advance" /\ ~TimerLive) => ~tm.isRunning

\* C20: start() of a Coordinator that was never initialized and whose rate
\* was set to r > 0 initializes it and leaves it running with the rate
\* still r and both components running.
C20_AutoInitStart ==
    [][(lastOp' = "start" /\ ~isInitialized
           /\ StrictlyPositive(wc.hourlyWage))
          => /\ isInitialized'
             /\ lastRet' = "true"
             /\ wc'.isRunning /\ tm'.isRunning
             /\ wc'.hourlyWage = wc.hourlyWage
      ]_vars

\* C21: initialize() of an initialized Coordinator changes nothing: the
\* TimerManager and its fields, the host's timers (one handler per tick), the
\* rate, elapsedSeconds, currentEarnings and both running flags stay as they
\* were; and isInitialized, once true, stays true.
C21_InitializeIdempotent ==
    [][/\ (lastOp' = "initialize" /\ isInitialized)
          => /\ wc' = wc /\ tm' = tm /\ scheduled' = scheduled
             /\ storedWage' = storedWage
       /\ isInitialized => isInitialized'
      ]_vars

\* initialize() of a Running Coordinator with earnings accrued at a rate
\* that is not the stored one.
C21_Witness ==
    /\ lastOp = "initialize" /\ lastFrom = "Running"
    /\ wc.isRunning /\ tm.isRunning /\ Cardinality(scheduled) = 1
    /\ StrictlyPositive(wc.currentEarnings)
    /\ wc.hourlyWage # storedWage /\ tm.pausedTime > 0

\* C22: on a Coordinator that is not initialized stop(), reset() and
\* updateEarnings() change nothing (the counter's fields, the timer, the
\* host's timers, isInitialized), and isStateSynchronized() is true.
C22_UninitializedNoOps ==
    [][/\ (lastOp' \in {"stop", "reset", "updateEarnings"} /\ ~isInitialized)
          => /\ wc' = wc /\ tm' = tm /\ scheduled' = scheduled
             /\ storedWage' = storedWage
             /\ ~isInitialized'
             /\ lastRet' = "undefined"
       /\ ~isInitialized' => App_isStateSynchronized(AppState)'
      ]_vars

\* reset() before initialize(), with a rate already set.
C22_Witness ==
    /\ lastOp = "reset" /\ lastFrom = "Uninitialized" /\ ~isInitialized
    /\ wc.hourlyWage = Num(2500) /\ ~wc.isRunning

\* The lifecycle state start() is called in, once start() has initialized
\* an application that was not.
StartsFrom == IF Lifecycle = "Uninitialized" THEN "Idle" ELSE Lifecycle

\* C23: every step follows the state machine: initialize takes
\* Uninitialized to Idle; start takes Idle or Paused to Running exactly when
\* the rate is > 0 (and leaves Running as it is); stop takes Running to
\* Paused and keeps elapsedSeconds and currentEarnings; reset takes every
\* initialized state to Idle; a rate change, a tick, updateEarnings, an
\* interval change and the passing of time leave the lifecycle state as it is.
C23_StateMachine ==
    [][/\ lastOp' = "initialize"
          => Lifecycle' = (IF Lifecycle = "Uninitialized" THEN "Idle"
                           ELSE Lifecycle)
       /\ lastOp' = "start"
          => Lifecycle' = (IF StartsFrom = "Running" THEN "Running"
                           ELSE IF StrictlyPositive(wc'.hourlyWage)
                                THEN "Running"
                                ELSE StartsFrom)
       /\ lastOp' = "stop"
          => /\ Lifecycle' = (IF Lifecycle = "Running" THEN "Paused"
                              ELSE Lifecycle)
             /\ wc'.elapsedSeconds = wc.elapsedSeconds
             /\ wc'.currentEarnings = wc.currentEarnings
       /\ lastOp' = "reset"
          => Lifecycle' = (IF Lifecycle = "Uninitialized" THEN "Uninitialized"
                           ELSE "Idle")
       /\ lastOp' \in {"setHourlyWage", "tick", "updateEarnings",
                       "setUpdateInterval", "advance"}
          => Lifecycle' = Lifecycle
      ]_vars

\* The value of a string of decimal digits.
\* C24: for a non-negative integer s the formatted elapsed time is
\* H:MM:SS, H of at least two digits (more only when needed, never wrapped
\* at 24), MM and SS of two digits below 60, with H*3600 + MM*60 + SS = s
\* (24:00:00 for 86400); the breakdown has the same three numbers, and the
\* timer's formatter and breakdown give the same for the same s.
C24_FormattedElapsedTime ==
    lastOp = "getFormattedElapsedTime"
    => LET s == lastArg.n
           f == lastRet
           L == Len(f)
           hh == SubSeq(f, 1, L - 6)
           mm == SubSeq(f, L - 4, L - 3)
           ss == SubSeq(f, L - 1, L)
           b == WC_getElapsedTimeBreakdown(wc)
       IN  /\ L >= 8 /\ f[L - 2] = ":" /\ f[L - 5] = ":"
           /\ IsDigits(hh) /\ IsDigits(mm) /\ IsDigits(ss)
           /\ Len(hh) > 2 => hh[1] # "0"
           /\ DigitsValue(mm) < SecondsPerMinute
           /\ DigitsValue(ss) < SecondsPerMinute
           /\ DigitsValue(hh) * SecondsPerHour
                + DigitsValue(mm) * SecondsPerMinute + DigitsValue(ss) = s
           /\ b = [hours |-> DigitsValue(hh), minutes |-> DigitsValue(mm),
                   seconds |-> DigitsValue(ss)]
           /\ s = 24 * SecondsPerHour
              => f = <<"2", "4", ":", "0", "0", ":", "0", "0">>
           /\ TM_getElapsedSeconds(tm, now) = s
           /\ TM_getFormattedElapsedTime(tm, now) = f
           /\ TM_getElapsedTimeBreakdown(tm, now) = b

\* One hundred hours, one minute and one second: three digits of hours.
C24_Witness ==
    /\ lastOp = "getFormattedElapsedTime"
    /\ lastArg = Num(100 * SecondsPerHour + SecondsPerMinute + 1)
    /\ lastRet = <<"1", "0", "0", ":", "0", "1", ":", "0", "1">>

\* C25: stop() called by the callback during a tick of a running Clock
\* completes (the handler returns), clears the interval timer, adds the
\* open segment to pausedTime once and leaves the Clock stopped; no handler
\* fires on the stopped Clock, and a further stop() folds and clears
\* nothing more.
C25_ReentrantStop ==
    [][/\ (lastOp' = "tick.stops" /\ tm.isRunning)
          => /\ lastRet' = "undefined"
             /\ ~tm'.isRunning
             /\ tm'.intervalId = NoInterval
             /\ scheduled' = {}
             /\ tm'.pausedTime = tm.pausedTime + (now - tm.startTime)
             /\ tm'.pausedTime = activeMs'
       /\ lastOp' \in {"tick", "tick.throws", "tick.collected", "tick.stops"}
          => (tm.isRunning /\ Cardinality(scheduled) = 1)
       /\ ~tm'.isRunning
          => TM_stop([tm |-> tm', sched |-> scheduled'], now')
                 = [tm |-> tm', sched |-> scheduled']
      ]_vars

\* The callback stopped the Clock a second or more into its first segment.
C25_Witness ==
    /\ lastOp = "tick.stops" /\ lastRunning /\ ~tm.isRunning
    /\ scheduled = {} /\ segments = 1
    /\ tm.pausedTime = activeMs /\ activeMs >= MsPerSecond
    /\ tm.pausedTime = now - tm.startTime

\* C26: the counter's start() records startTime only when none is set:
\* startTime is the instant of the first start since the last reset, a later
\* start keeps it, stop() and every other operation but reset() keep it,
\* and reset() clears it.
C26_SessionStartKept ==
    [][/\ lastOp' = "start"
          => wc'.startTime = (IF wc.startTime # NoTime THEN wc.startTime
                              ELSE IF lastRet' = "true" THEN now
                              ELSE NoTime)
       /\ (lastOp' = "reset" /\ isInitialized) => wc'.startTime = NoTime
       /\ lastOp' \notin {"start", "reset"} => wc'.startTime = wc.startTime
       /\ wc'.isRunning => wc'.startTime # NoTime
      ]_vars

\* Resumed after a pause: the timer is anchored now, the counter's startTime
\* is still the earlier instant of the first start.
C26_Witness ==
    /\ lastOp = "start" /\ lastFrom = "Paused" /\ lastRet = "true"
    /\ wc.isRunning /\ tm.startTime = now
    /\ wc.startTime # NoTime /\ wc.startTime < tm.startTime
    /\ segments = 2

\* C27: right after a tick of a Running Coordinator the counter's
\* elapsedSeconds is the timer's getElapsedSeconds() and currentEarnings is
\* perSecondWage times that value.
C27_TickForwards ==
    (lastOp = "tick" /\ lastFrom = "Running")
    => /\ wc.elapsedSeconds = Num(TM_getElapsedSeconds(tm, now))
       /\ wc.currentEarnings = Mul(wc.perSecondWage, wc.elapsedSeconds)

\* C28: when stop() of a Running Coordinator has returned, the counter's
\* elapsedSeconds is the timer's final getElapsedSeconds(); and from one
\* Paused state to the next, the rate unchanged, elapsedSeconds and
\* currentEarnings stay as they are.
C28_StopCapturesFinal ==
    [][/\ (lastOp' = "stop" /\ Lifecycle = "Running")
          => /\ ~tm'.isRunning /\ ~wc'.isRunning
             /\ wc'.elapsedSeconds = Num(TM_getElapsedSeconds(tm', now'))
       /\ (Lifecycle = "Paused" /\ Lifecycle' = "Paused"
             /\ wc'.hourlyWage = wc.hourlyWage)
          => /\ wc'.elapsedSeconds = wc.elapsedSeconds
             /\ wc'.currentEarnings = wc.currentEarnings
      ]_vars

\* C29: start() of a Clock constructed with null, undefined or another
\* value that is not a function ends without an error and leaves the Clock
\* running with a live interval timer; reset() then leaves it stopped with
\* zero elapsed seconds and no timer.
C29_NoCallbackStart ==
    [][/\ (lastOp' = "timer.start" /\ ~tm.isRunning
             /\ tm.callback # "function")
          => /\ lastRet' = "undefined"
             /\ tm'.isRunning
             /\ TimerLive'
       /\ lastOp' = "timer.reset"
          => /\ lastRet' = "undefined"
             /\ ~tm'.isRunning
             /\ TM_getElapsedSeconds(tm', now') = 0
             /\ scheduled' = {}
      ]_vars

\* C30: in double precision, the rate per second of the hourly rate 3600 is
\* exactly 1, and the rate per second of the hourly rate 1, added to 0
\* PrecisionLoopCount times, differs from 1 by at most the tolerance 0.0001.
C30_PrecisionRoundTrip ==
    /\ wc.hourlyWage = Num(PrecisionLoopCount)
       => ToDouble(wc.perSecondWage) = DoubleOne
    /\ (lastOp = "precision.add" /\ wc.hourlyWage = Num(1)
          /\ loopIndex = PrecisionLoopCount)
       => AssertEqualPasses(accumulated, DoubleOne)

\* The loop for the hourly rate 1 has ended, and rounding left a sum that
\* is not exactly 1.
C30_Witness ==
    /\ lastOp = "precision.add"
    /\ wc.hourlyWage = Num(1)
    /\ loopIndex = PrecisionLoopCount
    /\ accumulated # DoubleOne

\* C31: after saveSettings(k, v) with a valid key, loadSettings(k) on the
\* same StorageManager succeeds with the value v, whether localStorage is
\* available or not; loadSettings(k, d) of a valid key that saveSettings was
\* never given returns the default d.
C31_StorageRoundTrip ==
    [][/\ (lastOp' = "saveSettings" /\ ~InvalidKey(lastArg'.key))
          => \A d \in StorageDefaults :
                LET r == SM_loadSettings([s |-> storage', ls |-> localStorage'],
                                         lastArg'.key, d).ret
                IN  r.success /\ r.value = lastArg'.value
       /\ (lastOp' = "loadSettings" /\ ~InvalidKey(lastArg'.key)
             /\ lastArg'.key \notin savedKeys)
          => lastRet'.value = lastArg'.value
      ]_vars

\* C37: when the write of saveSettings fails on the quota, at most
\* MaxKeysToRemove keys are removed, all with the prefix and none containing
\* 'hourlyWage', and the write is tried again: if it fits after the removal
\* the text is stored and the result is a success with the warning
\* 'storage_cleanup_performed', otherwise the value is in the memory cache
\* and the result is a failure with fallbackUsed.
C37_QuotaCleanupRetry ==
    [][(/\ lastOp' = "saveSettings"
        /\ ~InvalidKey(lastArg'.key)
        /\ storage.isAvailable
        /\ SetItemThrows(localStorage, PrefixedKey(lastArg'.key),
                         lastArg'.value.s))
       => LET lsKey == PrefixedKey(lastArg'.key)
              removed == (DOMAIN localStorage \ DOMAIN localStorage') \ {lsKey}
              cleaned == RemoveItems(localStorage, removed)
          IN  /\ Cardinality(removed) <= MaxKeysToRemove
              /\ \A k \in removed : k.prefixed /\ ~IncludesHourlyWage(k)
              /\ IF ~SetItemThrows(cleaned, lsKey, lastArg'.value.s)
                 THEN /\ lastRet'.success
                      /\ lastRet'.warning = "storage_cleanup_performed"
                      /\ lsKey \in DOMAIN localStorage'
                      /\ localStorage'[lsKey] = lastArg'.value.s
                 ELSE /\ ~lastRet'.success
                      /\ lastRet'.fallbackUsed
                      /\ lastArg'.key \in DOMAIN storage'.memoryCache
                      /\ storage'.memoryCache[lastArg'.key] = lastArg'.value
      ]_vars

\* C39: after removeSettings(k) succeeds for a key k that was saved, and
\* after clearAllSettings() succeeds for every key that was saved,
\* loadSettings(k, d) on the same StorageManager returns the default d and
\* hasSettings(k) is false.
C39_RemovalObservable ==
    [][LET m == [s |-> storage', ls |-> localStorage']
           Gone(k) ==
               /\ ~SM_hasSettings(m, k)
               /\ \A d \in StorageDefaults :
                     SM_loadSettings(m, k, d).ret.value = d
       IN  /\ (lastOp' = "removeSettings" /\ lastRet'.success
                 /\ lastArg'.key \in savedKeys)
              => Gone(lastArg'.key)
           /\ (lastOp' = "clearAllSettings" /\ lastRet'.success)
              => \A k \in savedKeys : Gone(k)
      ]_vars

\* C32: when saveHourlyWage(w) has succeeded on an earlier Coordinator, a
\* new Coordinator over the same localStorage has the hourly wage w after
\* initialize().
C32_WagePersists ==
    [][(lastOp' = "initialize" /\ ~isInitialized /\ savedWage.by = "earlier")
       => wc'.hourlyWage = savedWage.value]_vars

\* C33: start() of a Coordinator that was never initialized has no effect:
\* it stays uninitialized and not running, with its counter and the host's
\* timers as they were; start() of an initialized Coordinator with a rate
\* above 0 makes it running.
C33_StartBeforeInitialize ==
    [][/\ (lastOp' = "start" /\ ~isInitialized)
          => /\ ~isInitialized'
             /\ ~wc'.isRunning
             /\ wc' = wc
             /\ scheduled' = scheduled
       /\ (lastOp' = "start" /\ isInitialized
             /\ StrictlyPositive(wc.hourlyWage))
          => wc'.isRunning
      ]_vars

\* C34: when the rate was changed (from a valid rate to a valid rate) while
\* the Coordinator was Paused and the counting was resumed, updateEarnings leaves as accrued amount the total
\* elapsed seconds priced at the rate in force before the change, and the
\* rate reported is the one last set.
C34_RateChangeWhilePaused ==
    [][/\ (lastOp' = "updateEarnings" /\ Lifecycle = "Running"
             /\ rateBefore.changed
             /\ ValidRate(rateBefore.rate) /\ ValidRate(wc.hourlyWage))
          => wc'.currentEarnings =
               Mul(DivInt(rateBefore.rate, SecondsPerHour), wc'.elapsedSeconds)
       /\ (lastOp' = "setHourlyWage" /\ Lifecycle = "Paused"
             /\ ValidRate(lastArg'))
          => wc'.hourlyWage = lastArg'
      ]_vars


\* C35: once the PerformanceOptimizer is initialized, hiding the page sets
\* the Clock's tick interval to the background interval (5000 ms), and
\* showing it again restores the interval the Clock had when the page was
\* hidden.
C35_ThrottlingReversible ==
    [][/\ (lastOp' = "page.hidden" /\ optimizer.isInitialized)
            => tm'.updateInterval = BackgroundUpdateInterval
       /\ (lastOp' = "page.visible" /\ optimizer.isInitialized)
            => tm'.updateInterval = intervalBeforeHide
      ]_vars

\* C36: a call of the throttled function made when no execution happened
\* yet runs updateFn at once, at most one deferred run is pending, and
\* updateFn is never executed less than minInterval ms after its last
\* execution.
C36_MinimumUpdateInterval ==
    [][/\ (lastOp' = "optimizedUpdate" /\ lastExecution = NoTime)
            => lastRet' = "executed"
       /\ Cardinality(frames') <= 1
       /\ (lastRet' = "executed" /\ lastOp' \in {"optimizedUpdate", "animationFrame"}
              /\ lastExecution # NoTime)
            => now - lastExecution >= MinInterval
      ]_vars


\* C38: the host holds exactly one live interval timer created by the Clock
\* when the Clock is running and none when it is not, also after the stored
\* handle was lost and stop() or start() was called.
C38_OneLiveTimer ==
    isInitialized => Cardinality(scheduled) = (IF tm.isRunning THEN 1 ELSE 0)

====
